---- MODULE Spec2Model ----
(***************************************************************************)
(* Helios Core: canonical serialization (package canon), the content hash  *)
(* (package hash) and the timestamp normalizer, as state machines whose    *)
(* actions apply the functions of the source to inputs drawn from bounded  *)
(* sets.                                                                   *)
(*                                                                         *)
(* A Go string is a sequence of bytes (0..255); string comparison is       *)
(* byte-wise, as in Go.  A dynamically typed value (interface{}) is a      *)
(* record [t |-> tag, v |-> payload]:                                      *)
(*   "null"  nil                    "bool"  v \in BOOLEAN                   *)
(*   "num"   json.Number, v is the literal's text                          *)
(*   "int"   Go int, v \in Int      "str"   v is a byte string              *)
(*   "map"   map[string]interface{}, v is a function from byte strings     *)
(*   "arr"   []interface{}, v is a sequence of values                      *)
(*   "other" a value of any other Go type                                  *)
(***************************************************************************)
EXTENDS Integers, Sequences, FiniteSets, TLC

VARIABLES pc, obj, first, second, cin, cout, tin, tout,
          vfile, vout, hin, ival, iout, sha, rin, rout

vars == <<pc, obj, first, second, cin, cout, tin, tout,
         vfile, vout, hin, ival, iout, sha, rin, rout>>

(***************************************************************************)
(* Bounds of the model.                                                    *)
(***************************************************************************)
\* longest relationships list of a MemoryObject
MaxRels == 2
\* the runtime's map iteration orders tried per call are 0..MaxSeed
MaxSeed == 1
\* longest array inside a value handed to CanonicalizeObject
MaxArr == 2

(***************************************************************************)
(* Byte strings.                                                           *)
(***************************************************************************)
RECURSIVE StrLess(_, _)
\* Go's s < t on strings: lexicographic over bytes
StrLess(s, t) ==
    IF t = <<>> THEN FALSE
    ELSE IF s = <<>> THEN TRUE
    ELSE IF Head(s) # Head(t) THEN Head(s) < Head(t)
    ELSE StrLess(Tail(s), Tail(t))

\* a faulty HasSuffixZ: any last byte will do
HasSuffixZ_any(s) == Len(s) >= 1

\* strings.HasSuffix(s, "Z")
HasSuffixZ(s) == Len(s) >= 1 /\ s[Len(s)] = 90

\* strings.LastIndex(s, "."), 0-based; -1 when there is none
LastIndexDot(s) ==
    LET at == {i \in 1..Len(s) : s[i] = 46}
    IN  IF at = {} THEN -1 ELSE (CHOOSE i \in at : \A j \in at : j <= i) - 1

\* the bytes s[lo:hi] of Go (0-based, hi exclusive)
Slice(s, lo, hi) == SubSeq(s, lo + 1, hi)

\* whether needle occurs in s as a contiguous run of bytes
Contains(s, needle) ==
    \E i \in 1..(Len(s) - Len(needle) + 1) :
        SubSeq(s, i, i + Len(needle) - 1) = needle

RECURSIVE NormalizeString(_)
\* norm.NFC.String(s) on the strings of the model: the canonical composition
\* of the pair <e, U+0301 combining acute> (65 CC 81) is U+00E9 (C3 A9);
\* every other byte of the model's alphabet is already in NFC.
NormalizeString(s) ==
    IF s = <<>> THEN <<>>
    ELSE IF Len(s) >= 3 /\ s[1] = 101 /\ s[2] = 204 /\ s[3] = 129
         THEN <<195, 169>> \o NormalizeString(SubSeq(s, 4, Len(s)))
    ELSE <<Head(s)>> \o NormalizeString(Tail(s))

(***************************************************************************)
(* Values and results.                                                     *)
(***************************************************************************)
Null == [t |-> "null", v |-> <<>>]
Bool(b) == [t |-> "bool", v |-> b]
Num(lit) == [t |-> "num", v |-> lit]
Int_(n) == [t |-> "int", v |-> n]
Str(s) == [t |-> "str", v |-> s]
Map(m) == [t |-> "map", v |-> m]
Arr(a) == [t |-> "arr", v |-> a]
Other == [t |-> "other", v |-> <<>>]

\* a float64: NaN, an infinity, or the finite number whose shortest decimal
\* digits are digits (none for zero), with the decimal point after the
\* first dp of them
\* (kept as one sequence: the class 0 finite, 1 NaN, 2 infinite; 1 for a
\* negative sign; dp; then the digits)
Float(class, neg, digits, dp) ==
    [t |-> "float",
     v |-> <<CASE class = "nan" -> 1 [] class = "inf" -> 2 [] OTHER -> 0,
             IF neg THEN 1 ELSE 0, dp>> \o digits]

\* ([]byte, nil) and (nil, error): err is "" or the error's identifier
Ok(bytes) == [err |-> "", bytes |-> bytes]
Fail(id) == [err |-> id, bytes |-> <<>>]

(***************************************************************************)
(* package canon: the serializer.                                          *)
(***************************************************************************)
\* a continuation byte of UTF-8 at s[j], within lo..hi
ContinuationAt(s, j, lo, hi) == j <= Len(s) /\ s[j] >= lo /\ s[j] <= hi

\* utf8.DecodeRuneInString(s[i:]): the rune and the number of bytes of a
\* well-formed encoding of 1 to 4 bytes (no overlong forms, no surrogates,
\* nothing above U+10FFFF), and RuneError with size 1 for anything else
DecodeRuneInString(s, i) ==
    LET b0 == s[i]
        lo2 == IF b0 = 224 THEN 160 ELSE IF b0 = 240 THEN 144 ELSE 128
        hi2 == IF b0 = 237 THEN 159 ELSE IF b0 = 244 THEN 143 ELSE 191
    IN  IF b0 < 128 THEN [r |-> b0, size |-> 1]
        ELSE IF b0 >= 194 /\ b0 <= 223 /\ ContinuationAt(s, i + 1, 128, 191)
             THEN [r |-> (b0 - 192) * 64 + (s[i + 1] - 128), size |-> 2]
        ELSE IF b0 >= 224 /\ b0 <= 239 /\ ContinuationAt(s, i + 1, lo2, hi2)
                /\ ContinuationAt(s, i + 2, 128, 191)
             THEN [r |-> (b0 - 224) * 4096 + (s[i + 1] - 128) * 64
                         + (s[i + 2] - 128),
                   size |-> 3]
        ELSE IF b0 >= 240 /\ b0 <= 244 /\ ContinuationAt(s, i + 1, lo2, hi2)
                /\ ContinuationAt(s, i + 2, 128, 191)
                /\ ContinuationAt(s, i + 3, 128, 191)
             THEN [r |-> (b0 - 240) * 262144 + (s[i + 1] - 128) * 4096
                         + (s[i + 2] - 128) * 64 + (s[i + 3] - 128),
                   size |-> 4]
        ELSE [r |-> 65533, size |-> 1]

\* one lowercase hexadecimal digit
HexDigit(n) == IF n < 10 THEN 48 + n ELSE 87 + n

\* a faulty EscapeControl: uppercase hexadecimal digits
EscapeControl_upper(r) ==
    <<92, 117, 48, 48, 48 + (r \div 16),
      IF r % 16 < 10 THEN 48 + (r % 16) ELSE 55 + (r % 16)>>

\* fmt.Sprintf(`\u%04x`, r) for r < 0x20
EscapeControl(r) == <<92, 117, 48, 48, HexDigit(r \div 16), HexDigit(r % 16)>>

\* the bytes canonicalizeString writes for the rune decoded at s[i]
EscapeRune(s, i) ==
    LET d == DecodeRuneInString(s, i)
    IN  CASE d.r = 34 -> <<92, 34>>
          [] d.r = 92 -> <<92, 92>>
          [] d.r = 8  -> <<92, 98>>
          [] d.r = 12 -> <<92, 102>>
          [] d.r = 10 -> <<92, 110>>
          [] d.r = 13 -> <<92, 114>>
          [] d.r = 9  -> <<92, 116>>
          [] d.r < 32 /\ d.r \notin {8, 9, 10, 12, 13} -> EscapeControl(d.r)
          [] OTHER -> SubSeq(s, i, i + d.size - 1)

RECURSIVE EscapeFrom(_, _)
\* the loop of canonicalizeString from byte i on
EscapeFrom(s, i) ==
    IF i > Len(s) THEN <<>>
    ELSE EscapeRune(s, i) \o EscapeFrom(s, i + DecodeRuneInString(s, i).size)

canonicalizeString(s) == Ok(<<34>> \o EscapeFrom(s, 1) \o <<34>>)

RECURSIVE Digits(_)
\* the decimal digits of n >= 0
Digits(n) == IF n < 10 THEN <<48 + n>> ELSE Digits(n \div 10) \o <<48 + (n % 10)>>

\* strconv.Itoa
Itoa(n) == IF n < 0 THEN <<45>> \o Digits(-n) ELSE Digits(n)

RECURSIVE RangeKeys(_, _)
\* `for k := range m`: the keys of a map in the order the runtime happens to
\* iterate them, decided by seed (each seed a different permutation)
RangeKeys(S, seed) ==
    IF S = {} THEN <<>>
    ELSE LET n == Cardinality(S)
             k == CHOOSE x \in S :
                    Cardinality({y \in S : StrLess(y, x)}) = seed % n
         IN  <<k>> \o RangeKeys(S \ {k}, seed \div n)

\* a faulty InsertSorted: the key goes in front, whatever it is
InsertSorted_front(sorted, k) == <<k>> \o sorted

RECURSIVE InsertSorted(_, _)
InsertSorted(sorted, k) ==
    IF sorted = <<>> THEN <<k>>
    ELSE IF StrLess(k, Head(sorted)) THEN <<k>> \o sorted
    ELSE <<Head(sorted)>> \o InsertSorted(Tail(sorted), k)

\* a faulty SortStrings: the keys stay in iteration order
SortStrings_unsorted(keys) == keys

RECURSIVE SortStrings(_)
\* sort.Strings(keys)
SortStrings(keys) ==
    IF keys = <<>> THEN <<>>
    ELSE InsertSorted(SortStrings(SubSeq(keys, 1, Len(keys) - 1)), keys[Len(keys)])


\* strconv.FormatFloat(val, 'f', -1, 64): NaN, +Inf and -Inf by name, else
\* the integer digits (0 when there are none) and, after a point, the
\* fraction digits the shortest representation has
FormatFloat(f) ==
    LET nd == Len(f) - 3
        dp == f[3]
        prec == IF nd - dp > 0 THEN nd - dp ELSE 0
        digitAt(j) == IF j >= 1 /\ j <= nd THEN f[3 + j] ELSE 48
    IN  CASE f[1] = 1 -> <<78, 97, 78>>
          [] f[1] = 2 -> (IF f[2] = 1 THEN <<45>> ELSE <<43>>) \o <<73, 110, 102>>
          [] OTHER ->
                (IF f[2] = 1 THEN <<45>> ELSE <<>>)
                \o (IF dp > 0 THEN [j \in 1..dp |-> digitAt(j)] ELSE <<48>>)
                \o (IF prec > 0 THEN <<46>> \o [j \in 1..prec |-> digitAt(dp + j)]
                    ELSE <<>>)

RECURSIVE canonicalizeValue(_, _)
RECURSIVE canonicalizeMap(_, _)
RECURSIVE canonicalizeArray(_, _)
RECURSIVE EmitPairs(_, _, _, _)
RECURSIVE EmitElems(_, _, _)

\* the loop of canonicalizeMap over the sorted keys, from index i; the first
\* failing value ends it with that error
EmitPairs(m, keys, i, seed) ==
    IF i > Len(keys) THEN Ok(<<>>)
    ELSE LET keyBytes == canonicalizeString(keys[i])
             valBytes == canonicalizeValue(m[keys[i]], seed)
             rest == EmitPairs(m, keys, i + 1, seed)
         IN  IF valBytes.err # "" THEN valBytes
             ELSE IF rest.err # "" THEN rest
             ELSE Ok((IF i > 1 THEN <<44>> ELSE <<>>) \o keyBytes.bytes \o <<58>>
                     \o valBytes.bytes \o rest.bytes)

canonicalizeMap(m, seed) ==
    LET keys == SortStrings(RangeKeys(DOMAIN m, seed))
        body == EmitPairs(m, keys, 1, seed)
    IN  IF body.err # "" THEN body ELSE Ok(<<123>> \o body.bytes \o <<125>>)

\* the loop of canonicalizeArray from index i
EmitElems(arr, i, seed) ==
    IF i > Len(arr) THEN Ok(<<>>)
    ELSE LET valBytes == canonicalizeValue(arr[i], seed)
             rest == EmitElems(arr, i + 1, seed)
         IN  IF valBytes.err # "" THEN valBytes
             ELSE IF rest.err # "" THEN rest
             ELSE Ok((IF i > 1 THEN <<44>> ELSE <<>>) \o valBytes.bytes \o rest.bytes)

\* a faulty canonicalizeArray: an empty array is emitted as null
canonicalizeArray_null(arr, seed) ==
    LET body == EmitElems(arr, 1, seed)
    IN  IF body.err # "" THEN body
        ELSE IF arr = <<>> THEN Ok(<<110, 117, 108, 108>>)
        ELSE Ok(<<91>> \o body.bytes \o <<93>>)

\* a faulty canonicalizeArray: the elements are emitted last to first
canonicalizeArray_reversed(arr, seed) ==
    LET rev == [i \in 1..Len(arr) |-> arr[Len(arr) + 1 - i]]
        body == EmitElems(rev, 1, seed)
    IN  IF body.err # "" THEN body ELSE Ok(<<91>> \o body.bytes \o <<93>>)

canonicalizeArray(arr, seed) ==
    LET body == EmitElems(arr, 1, seed)
    IN  IF body.err # "" THEN body ELSE Ok(<<91>> \o body.bytes \o <<93>>)

canonicalizeValue(val, seed) ==
    CASE val.t = "null" -> Fail("CANON_ERR_NULL_PROHIBITED")
      [] val.t = "bool" -> IF val.v THEN Ok(<<116, 114, 117, 101>>)
                                    ELSE Ok(<<102, 97, 108, 115, 101>>)
      [] val.t = "num"  -> Ok(val.v)
      [] val.t = "float" -> Ok(FormatFloat(val.v))
      [] val.t = "int"  -> Ok(Itoa(val.v))
      [] val.t = "str"  -> canonicalizeString(val.v)
      [] val.t = "map"  -> canonicalizeMap(val.v, seed)
      [] val.t = "arr"  -> canonicalizeArray(val.v, seed)
      [] OTHER          -> Fail("unsupported type")

CanonicalizeObject(m, seed) == canonicalizeValue(Map(m), seed)

(***************************************************************************)
(* package canon: NormalizeTimestamp, with time.Parse and Time.Format for  *)
(* the one layout it uses, "2006-01-02T15:04:05.000Z".                     *)
(***************************************************************************)
\* isDigit(s, i) of package time, i 1-based here
IsDigitAt(s, i) == i <= Len(s) /\ s[i] >= 48 /\ s[i] <= 57

\* getnum(value, fixed): one or two leading digits; exactly two when fixed
getnum(value, fixed) ==
    IF ~IsDigitAt(value, 1) THEN [ok |-> FALSE, n |-> 0, rest |-> value]
    ELSE IF ~IsDigitAt(value, 2)
         THEN IF fixed THEN [ok |-> FALSE, n |-> 0, rest |-> value]
              ELSE [ok |-> TRUE, n |-> value[1] - 48, rest |-> Tail(value)]
    ELSE [ok |-> TRUE, n |-> (value[1] - 48) * 10 + (value[2] - 48),
          rest |-> SubSeq(value, 3, Len(value))]

RECURSIVE leadingInt(_, _)
\* leadingInt(s): the value of the leading run of digits (after acc) and
\* what follows it
leadingInt(s, acc) ==
    IF IsDigitAt(s, 1) THEN leadingInt(Tail(s), acc * 10 + (s[1] - 48))
    ELSE [x |-> acc, rem |-> s]

\* atoi(s) of package time: an optional sign, then digits and nothing else
atoi(s) ==
    LET signed == Len(s) > 0 /\ s[1] \in {43, 45}
        neg == signed /\ s[1] = 45
        q == leadingInt(IF signed THEN Tail(s) ELSE s, 0)
    IN  IF q.rem # <<>> THEN [ok |-> FALSE, x |-> 0]
        ELSE [ok |-> TRUE, x |-> IF neg THEN 0 - q.x ELSE q.x]

\* skip(value, prefix) for a one-byte literal of the layout
skip(value, c) ==
    IF Len(value) = 0 \/ value[1] # c THEN [ok |-> FALSE, rest |-> value]
    ELSE [ok |-> TRUE, rest |-> Tail(value)]

\* daysIn(month, year)
daysIn(month, year) ==
    IF month = 2
    THEN IF year % 4 = 0 /\ (year % 100 # 0 \/ year % 400 = 0) THEN 29 ELSE 28
    ELSE IF month \in {4, 6, 9, 11} THEN 30 ELSE 31

NoTime == [ok |-> FALSE, year |-> 0, month |-> 0, day |-> 0, hour |-> 0,
           min |-> 0, sec |-> 0, ms |-> 0]

\* time.Parse("2006-01-02T15:04:05.000Z", s): the chunks of the layout in
\* order; stdLongYear wants four digits, stdZeroMonth/Day/Minute/Second two,
\* stdHour one or two, stdFracSecond0 a '.' or ',' and three bytes that atoi
\* accepts, and the literal Z ends the value
TimeParse(s) ==
    LET yearOk == Len(s) >= 4 /\ IsDigitAt(s, 1)
        year   == atoi(SubSeq(s, 1, 4))
        l1     == skip(SubSeq(s, 5, Len(s)), 45)
        month  == getnum(l1.rest, TRUE)
        l2     == skip(month.rest, 45)
        day    == getnum(l2.rest, TRUE)
        l3     == skip(day.rest, 84)
        hour   == getnum(l3.rest, FALSE)
        l4     == skip(hour.rest, 58)
        min    == getnum(l4.rest, TRUE)
        l5     == skip(min.rest, 58)
        sec    == getnum(l5.rest, TRUE)
        fracOk == Len(sec.rest) >= 4 /\ sec.rest[1] \in {46, 44}
        frac   == atoi(SubSeq(sec.rest, 2, 4))
        l6     == skip(SubSeq(sec.rest, 5, Len(sec.rest)), 90)
    IN  IF /\ yearOk /\ year.ok
           /\ l1.ok /\ month.ok /\ month.n >= 1 /\ month.n <= 12
           /\ l2.ok /\ day.ok
           /\ l3.ok /\ hour.ok /\ hour.n < 24
           /\ l4.ok /\ min.ok /\ min.n < 60
           /\ l5.ok /\ sec.ok /\ sec.n < 60
           /\ fracOk /\ frac.ok /\ frac.x >= 0
           /\ l6.ok /\ l6.rest = <<>>
           /\ day.n >= 1 /\ day.n <= daysIn(month.n, year.x)
        THEN [ok |-> TRUE, year |-> year.x, month |-> month.n, day |-> day.n,
              hour |-> hour.n, min |-> min.n, sec |-> sec.n, ms |-> frac.x]
        ELSE NoTime

RECURSIVE Pad(_, _)
\* appendInt(b, n, width): n in decimal, zero-padded to width
Pad(n, width) ==
    IF width = 0 THEN <<>> ELSE Pad(n \div 10, width - 1) \o <<48 + (n % 10)>>

\* t.Format("2006-01-02T15:04:05.000Z")
TimeFormat(t) ==
    Pad(t.year, 4) \o <<45>> \o Pad(t.month, 2) \o <<45>> \o Pad(t.day, 2)
    \o <<84>> \o Pad(t.hour, 2) \o <<58>> \o Pad(t.min, 2) \o <<58>>
    \o Pad(t.sec, 2) \o <<46>> \o Pad(t.ms, 3) \o <<90>>

NormalizeTimestamp(s) ==
    IF ~HasSuffixZ(s) THEN Fail("CANON_ERR_TIMESTAMP_NON_UTC")
    ELSE LET dotIdx == LastIndexDot(s)
         IN  IF dotIdx = -1 THEN Fail("CANON_ERR_TIMESTAMP_INVALID_PRECISION")
             ELSE IF dotIdx + 1 > Len(s) - 1 THEN Fail("panic: slice bounds out of range")
             ELSE LET frac == Slice(s, dotIdx + 1, Len(s) - 1)
                      t == TimeParse(s)
                  IN  IF Len(frac) # 3
                      THEN Fail("CANON_ERR_TIMESTAMP_INVALID_PRECISION")
                      ELSE IF ~t.ok THEN Fail("invalid timestamp format")
                      ELSE Ok(TimeFormat(t))

(***************************************************************************)
(* package canon: relationships.                                           *)
(***************************************************************************)
\* the field names of the canonical JSON, as Go strings
K_schema == <<95, 104, 101, 108, 105, 111, 115, 95, 115, 99, 104, 101, 109, 97,
              95, 118, 101, 114, 115, 105, 111, 110>>
K_category == <<99, 97, 116, 101, 103, 111, 114, 121>>
K_created_at == <<99, 114, 101, 97, 116, 101, 100, 95, 97, 116>>
K_key == <<107, 101, 121>>
K_relationships == <<114, 101, 108, 97, 116, 105, 111, 110, 115, 104, 105, 112, 115>>
K_source == <<115, 111, 117, 114, 99, 101>>
K_value == <<118, 97, 108, 117, 101>>
K_type == <<116, 121, 112, 101>>

RelationshipToMap(key, typ) == (K_key :> Str(key)) @@ (K_type :> Str(typ))

\* v, _ := m[k].(string): the string under k, "" when absent or no string
StringAt(m, k) == IF k \in DOMAIN m /\ m[k].t = "str" THEN m[k].v ELSE <<>>

\* the less function SortRelationships hands to sort.SliceStable
RelLess(a, b) ==
    LET ki == StringAt(a, K_key)
        kj == StringAt(b, K_key)
    IN  IF ki # kj THEN StrLess(ki, kj)
        ELSE StrLess(StringAt(a, K_type), StringAt(b, K_type))

RECURSIVE InsertStable(_, _)
\* a faulty InsertStable: r goes before its equals
InsertStable_before(sorted, r) ==
    LET first_ge == {i \in 1..Len(sorted) : ~RelLess(sorted[i], r)}
        at == IF first_ge = {} THEN Len(sorted) + 1
              ELSE CHOOSE i \in first_ge : \A j \in first_ge : i <= j
    IN  SubSeq(sorted, 1, at - 1) \o <<r>> \o SubSeq(sorted, at, Len(sorted))

\* r goes before the first entry it is less than, so after its equals
InsertStable(sorted, r) ==
    IF sorted = <<>> THEN <<r>>
    ELSE IF RelLess(r, Head(sorted)) THEN <<r>> \o sorted
    ELSE <<Head(sorted)>> \o InsertStable(Tail(sorted), r)

\* a faulty SortRelationships: the copy is returned unsorted
SortRelationships_unsorted(rels) == rels

RECURSIVE SortRelationships(_)
\* a sorted copy (sort.SliceStable); the argument is left as it is
SortRelationships(rels) ==
    IF rels = <<>> THEN <<>>
    ELSE InsertStable(SortRelationships(SubSeq(rels, 1, Len(rels) - 1)),
                      rels[Len(rels)])

(***************************************************************************)
(* package object and package hash.                                        *)
(***************************************************************************)
\* a faulty NewHashInput: Source is copied from the wrong field
NewHashInput_leak(o) ==
    [Category |-> o.Category, CreatedAt |-> o.CreatedAt, Key |-> o.Key,
     Relationships |-> o.Relationships, Source |-> o.LastAccessed,
     Value |-> o.Value]

NewHashInput(o) ==
    [Category |-> o.Category, CreatedAt |-> o.CreatedAt, Key |-> o.Key,
     Relationships |-> o.Relationships, Source |-> o.Source, Value |-> o.Value]

\* sha256.Sum256(data): a [32]byte that data determines.  The bytes here are
\* a stand-in for the real digest (bytes of data picked by position, offset
\* by its length); that digests of different data differ is kept apart, in
\* the field "of" of Sha256Hex.
Sum256(data) ==
    [i \in 1..32 |->
        IF data = <<>> THEN (i * 37) % 256
        ELSE (data[((i * 7) % Len(data)) + 1] + i + Len(data)) % 256]

\* a faulty EncodeToString: uppercase digits
EncodeToString_upper(src) ==
    [i \in 1..(2 * Len(src)) |->
        LET n == IF i % 2 = 1 THEN src[(i + 1) \div 2] \div 16 ELSE src[i \div 2] % 16
        IN  IF n < 10 THEN 48 + n ELSE 55 + n]

\* hex.EncodeToString(src): two lowercase hexadecimal digits per byte
EncodeToString(src) ==
    [i \in 1..(2 * Len(src)) |->
        IF i % 2 = 1 THEN HexDigit(src[(i + 1) \div 2] \div 16)
        ELSE HexDigit(src[i \div 2] % 16)]

\* hex.EncodeToString(sha256.Sum256(canonical)): the characters returned
\* (hex, len of them) and the bytes hashed (of); two digests are equal
\* exactly when the bytes are (SHA-256 taken as collision-free)
Sha256Hex(canonical) ==
    LET hex == EncodeToString(Sum256(canonical))
    IN  [len |-> Len(hex), of |-> canonical, hex |-> hex]

\* the "" ContentHash returns beside an error
NoHash == [len |-> 0, of |-> <<>>, hex |-> <<>>]

\* the (hash, err) ContentHash returns, with the field map it handed to the
\* serializer and the canonical bytes it hashed (an empty map and no bytes
\* when it returned before)
HashResult(err, hash, fields, canonical) ==
    [err |-> err, hash |-> hash, fields |-> fields, canonical |-> canonical]

HashFail(err) == HashResult(err, NoHash, <<>>, <<>>)

\* steps 4: NFC on the key and the type of one sorted relationship map
NormalizeRel(r) ==
    [k \in DOMAIN r |->
        IF k \in {K_key, K_type} /\ r[k].t = "str"
        THEN Str(NormalizeString(r[k].v)) ELSE r[k]]

RECURSIVE NormalizeDeep(_)
\* NFC on every string and every map key that v holds
NormalizeDeep(v) ==
    CASE v.t = "str" -> Str(NormalizeString(v.v))
      [] v.t = "arr" -> Arr([j \in 1..Len(v.v) |-> NormalizeDeep(v.v[j])])
      [] v.t = "map" ->
            Map([k \in {NormalizeString(x) : x \in DOMAIN v.v} |->
                    NormalizeDeep(v.v[CHOOSE x \in DOMAIN v.v :
                                          NormalizeString(x) = k])])
      [] OTHER -> v

\* a faulty NormalizeValue: NFC is applied inside maps and arrays too
NormalizeValue_deep(v) == NormalizeDeep(v)

\* a faulty NormalizeValue: a string value is left as it came
NormalizeValue_raw(v) == v

\* step 4: NFC on Value when it is a string
NormalizeValue(v) == IF v.t = "str" THEN Str(NormalizeString(v.v)) ELSE v

\* a faulty HashFields: the schema version is left out of the map
HashFields_noversion(inp, ts, relsInterface) ==
    (K_category :> Str(NormalizeString(inp.Category)))
    @@ (K_created_at :> Str(ts))
    @@ (K_key :> Str(NormalizeString(inp.Key)))
    @@ (K_relationships :> Arr(relsInterface))
    @@ (K_source :> Str(NormalizeString(inp.Source)))
    @@ (K_value :> inp.Value)

\* step 5: the map of the hashed fields, with the schema version
HashFields(inp, ts, relsInterface) ==
    (K_schema :> Str(<<49>>))
    @@ (K_category :> Str(NormalizeString(inp.Category)))
    @@ (K_created_at :> Str(ts))
    @@ (K_key :> Str(NormalizeString(inp.Key)))
    @@ (K_relationships :> Arr(relsInterface))
    @@ (K_source :> Str(NormalizeString(inp.Source)))
    @@ (K_value :> NormalizeValue(inp.Value))

ContentHash(o, seed) ==
    IF o.Value.t = "null" THEN HashFail("CANON_ERR_NULL_PROHIBITED")
    ELSE
    LET inp == NewHashInput(o)
        ts == NormalizeTimestamp(inp.CreatedAt)
        relMaps == [i \in 1..Len(inp.Relationships) |->
                      RelationshipToMap(inp.Relationships[i].Key,
                                        inp.Relationships[i].Type)]
        sorted == SortRelationships(relMaps)
        sortedRels == [i \in 1..Len(sorted) |-> NormalizeRel(sorted[i])]
        relsInterface == [i \in 1..Len(sortedRels) |-> Map(sortedRels[i])]
        fields == HashFields(inp, ts.bytes, relsInterface)
        canonical == CanonicalizeObject(fields, seed)
    IN  IF ts.err # "" THEN HashFail(ts.err)
        ELSE IF canonical.err # "" THEN HashResult(canonical.err, NoHash, fields, <<>>)
        ELSE HashResult("", Sha256Hex(canonical.bytes), fields, canonical.bytes)

(***************************************************************************)
(* The inputs the callers build.                                           *)
(***************************************************************************)
\* "e" + U+0301 (decomposed), U+00E9 (precomposed), and "f"; as bytes
\* S_nfd < S_f < S_nfc although S_nfd and S_nfc are canonically equivalent
S_nfd == <<101, 204, 129>>
S_nfc == <<195, 169>>
S_f == <<102>>
S_t == <<116>>
Strs == {S_nfd, S_nfc, S_f}

\* created_at: two canonical timestamps and one with a numeric offset
T_ok == <<50, 48, 50, 53, 45, 48, 49, 45, 49, 53, 84, 49, 48, 58, 51, 48, 58,
          48, 48, 46, 48, 48, 48, 90>>
T_ok2 == <<50, 48, 50, 53, 45, 48, 49, 45, 49, 53, 84, 49, 48, 58, 51, 48, 58,
           48, 48, 46, 49, 50, 51, 90>>
T_offset == <<50, 48, 50, 53, 45, 48, 49, 45, 49, 53, 84, 49, 48, 58, 51, 48,
              58, 48, 48, 46, 49, 50, 51, 43, 48, 48, 58, 48, 48>>
\* 2025-01-15T1:30:00.000Z, the hour with one digit, and
\* 2025-01-15T01:30:00.000Z
T_hour1 == <<50, 48, 50, 53, 45, 48, 49, 45, 49, 53, 84, 49, 58, 51, 48, 58, 48,
             48, 46, 48, 48, 48, 90>>
T_hour01 == <<50, 48, 50, 53, 45, 48, 49, 45, 49, 53, 84, 48, 49, 58, 51, 48, 58,
              48, 48, 46, 48, 48, 48, 90>>
Stamps == {T_ok, T_ok2, T_offset, T_hour1, T_hour01}

\* the string "null"
S_null == <<110, 117, 108, 108>>

\* values of a MemoryObject: strings (decomposed, precomposed, "null"), nil,
\* a map with two keys, an array, and a map holding a nil
Values ==
    { Str(<<99, 97, 102>> \o S_nfd), Str(<<99, 97, 102>> \o S_nfc), Str(S_null),
      Null,
      Map((S_nfd :> Str(S_nfd)) @@ (S_f :> Num(<<52, 50>>))),
      Arr(<<Str(S_nfd), Bool(TRUE)>>),
      Map(S_f :> Null) }

Rel(key, typ) == [Key |-> key, Type |-> typ]
Rels == {Rel(S_nfd, S_t), Rel(S_nfc, S_t), Rel(S_f, S_nfd), Rel(S_f, S_nfc)}

RECURSIVE SeqsUpTo(_, _)
\* the sequences over S of length at most n
SeqsUpTo(S, n) ==
    IF n = 0 THEN {<<>>}
    ELSE LET shorter == SeqsUpTo(S, n - 1)
         IN  shorter \cup {Append(q, x) : q \in shorter, x \in S}

RelLists == SeqsUpTo(Rels, MaxRels)

\* the five fields outside the hash boundary
Meta(u, v, a, l, c) ==
    [UpdatedAt |-> u, Version |-> v, AccessCount |-> a, LastAccessed |-> l,
     Confidence |-> c]
Metas == { Meta(T_ok, 3, 42, T_ok2, 95), Meta(T_ok2, 999, 999999, S_f, 1),
           Meta(T_ok, 4, 42, T_ok2, 95) }

MemoryObject(c, t, k, r, s, v, m) ==
    [Category |-> c, CreatedAt |-> t, Key |-> k, Relationships |-> r,
     Source |-> s, Value |-> v, UpdatedAt |-> m.UpdatedAt, Version |-> m.Version,
     AccessCount |-> m.AccessCount, LastAccessed |-> m.LastAccessed,
     Confidence |-> m.Confidence]

baseObject ==
    MemoryObject(S_nfd, T_ok, S_nfd, <<Rel(S_f, S_t)>>, S_nfd,
                 Str(<<99, 97, 102>> \o S_nfd), Meta(T_ok, 3, 42, T_ok2, 95))

\* the objects a caller starts from: baseObject with one hashed field set
InitObjects ==
    {[baseObject EXCEPT !.Relationships = r] : r \in RelLists}
    \cup {[baseObject EXCEPT !.Value = v] : v \in Values}
    \cup {[baseObject EXCEPT !.CreatedAt = t] : t \in Stamps}

\* a ContentHash call: the object it was given and what it returned
Call(o, out) == [done |-> TRUE, in |-> o, out |-> out]
NoCall == [done |-> FALSE, in |-> baseObject, out |-> HashFail("")]

\* a CanonicalizeObject or NormalizeTimestamp call's result
Res(r) == [done |-> TRUE, err |-> r.err, bytes |-> r.bytes]
NoRes == [done |-> FALSE, err |-> "", bytes |-> <<>>]

Seeds == 0..MaxSeed

(***************************************************************************)
(* Spec: a caller builds a MemoryObject, hashes it, changes one thing and  *)
(* hashes it again (the shape of the tests of package hash).               *)
(***************************************************************************)
\* VerifyVectors in progress or returned: the run of the caller (1 or 2),
\* the index i of the loop, the results set so far, the failures counted,
\* and once done what was returned: the results (nilResults when the slice
\* is nil) and err, "" for a nil error, with the error it wraps as cause
VerifyState(run, i, results, failures) ==
    [done |-> FALSE, run |-> run, i |-> i, results |-> results,
     failures |-> failures, nilResults |-> FALSE, err |-> "", cause |-> ""]
Verified(run, results, nilResults, err, cause) ==
    [done |-> TRUE, run |-> run, i |-> 0, results |-> results, failures |-> 0,
     nilResults |-> nilResults, err |-> err, cause |-> cause]
NoVerified == VerifyState(1, 0, <<>>, 0)

\* what ValidateIngestValue returned: err is "" for nil
Validated(err) == [done |-> TRUE, err |-> err]
NoValidated == [done |-> FALSE, err |-> ""]

IdleCanon == cin = <<>> /\ cout = NoRes
IdleTime == tin = <<>> /\ tout = NoRes
IdleHash == pc = "idle" /\ obj = baseObject /\ first = NoCall /\ second = NoCall
IdleVerify == vfile = <<>> /\ vout = NoVerified /\ hin = <<>>
IdleIngest == ival = Null /\ iout = NoValidated

\* sha256.Sum256 in progress: the padded message, the number of the block
\* being worked on, its message schedule w, the rounds done on it, the
\* working variables a..h in reg and the hash value so far; out is what
\* ContentHash has to return beside the digest
ShaState(msg, blk, w, round, reg, h, out) ==
    [msg |-> msg, blk |-> blk, w |-> w, round |-> round, reg |-> reg, h |-> h,
     out |-> out]
NoSha == ShaState(<<>>, 0, <<>>, 0, <<>>, <<>>, HashFail(""))
IdleSha == sha = NoSha

\* what SortRelationships returned, and the slice it was called with as it
\* was before the call
Sorted(before, sorted) == [done |-> TRUE, before |-> before, sorted |-> sorted]
NoSorted == [done |-> FALSE, before |-> <<>>, sorted |-> <<>>]
IdleSort == rin = <<>> /\ rout = NoSorted

Init ==
    /\ pc = "built"
    /\ obj \in InitObjects
    /\ first = NoCall
    /\ second = NoCall
    /\ IdleCanon
    /\ IdleTime
    /\ IdleVerify
    /\ IdleIngest
    /\ IdleSha
    /\ IdleSort

\* h1, err := ContentHash(obj)
Hash ==
    /\ pc = "built"
    /\ \E seed \in Seeds : first' = Call(obj, ContentHash(obj, seed))
    /\ pc' = "hashed"
    /\ UNCHANGED <<obj, second, cin, cout, tin, tout, vfile, vout, hin, ival, iout, sha, rin, rout>>

Edit(o) ==
    /\ pc = "hashed"
    /\ obj' = o
    /\ pc' = "edited"
    /\ UNCHANGED <<first, second, cin, cout, tin, tout, vfile, vout, hin, ival, iout, sha, rin, rout>>

SetCategory == \E s \in Strs : Edit([obj EXCEPT !.Category = s])
SetKey == \E s \in Strs : Edit([obj EXCEPT !.Key = s])
SetSource == \E s \in Strs : Edit([obj EXCEPT !.Source = s])
SetCreatedAt == \E t \in Stamps : Edit([obj EXCEPT !.CreatedAt = t])
SetValue == \E v \in Values : Edit([obj EXCEPT !.Value = v])
SetRelationships == \E r \in RelLists : Edit([obj EXCEPT !.Relationships = r])
SetMetadata ==
    \E m \in Metas :
        Edit([obj EXCEPT !.UpdatedAt = m.UpdatedAt, !.Version = m.Version,
                         !.AccessCount = m.AccessCount,
                         !.LastAccessed = m.LastAccessed,
                         !.Confidence = m.Confidence])

\* h2, err := ContentHash(obj), on the object as it is now
Rehash ==
    /\ pc \in {"hashed", "edited"}
    /\ \E seed \in Seeds : second' = Call(obj, ContentHash(obj, seed))
    /\ pc' = "rehashed"
    /\ UNCHANGED <<obj, first, cin, cout, tin, tout, vfile, vout, hin, ival, iout, sha, rin, rout>>

Next ==
    \/ Hash
    \/ SetCategory
    \/ SetKey
    \/ SetSource
    \/ SetCreatedAt
    \/ SetValue
    \/ SetRelationships
    \/ SetMetadata
    \/ Rehash

Spec == Init /\ [][Next]_vars

(***************************************************************************)
(* Notions the claims are stated with, defined apart from the code.        *)
(***************************************************************************)
RECURSIVE Decompose(_)
\* the canonical decomposition (NFD) of a string of the model's alphabet
Decompose(s) ==
    IF s = <<>> THEN <<>>
    ELSE IF Len(s) >= 2 /\ s[1] = 195 /\ s[2] = 169
         THEN <<101, 204, 129>> \o Decompose(SubSeq(s, 3, Len(s)))
    ELSE <<Head(s)>> \o Decompose(Tail(s))

\* canonical equivalence of Unicode: the same canonical decomposition
CanonEquiv(s, t) == Decompose(s) = Decompose(t)

SameMeta(a, b) ==
    /\ a.UpdatedAt = b.UpdatedAt /\ a.Version = b.Version
    /\ a.AccessCount = b.AccessCount /\ a.LastAccessed = b.LastAccessed
    /\ a.Confidence = b.Confidence

\* a and b agree on the six hashed fields
SameHashed(a, b) ==
    /\ a.Category = b.Category /\ a.CreatedAt = b.CreatedAt /\ a.Key = b.Key
    /\ a.Relationships = b.Relationships /\ a.Source = b.Source
    /\ a.Value = b.Value

\* the two calls ended alike: both failed the same way or gave the same hash
SameOutcome == first.out.err = second.out.err /\ first.out.hash = second.out.hash

HashedKeys ==
    {K_schema, K_category, K_created_at, K_key, K_relationships, K_source, K_value}

\* C1: two objects that agree on the six hashed fields and differ only in
\* updated_at, version, access_count, last_accessed or confidence get the
\* same outcome from ContentHash (the same hash, or an error both times),
\* and the map handed to the serializer is the same and has only the keys
\* of the hashed fields and the schema version.
C1_BoundaryPreservation ==
    (second.done /\ SameHashed(first.in, second.in)) =>
        /\ SameOutcome
        /\ first.out.fields = second.out.fields
        /\ DOMAIN first.out.fields \subseteq HashedKeys
        /\ DOMAIN second.out.fields \subseteq HashedKeys

\* the five excluded fields all differ and a hash was computed both times
C1_Witness ==
    /\ second.done /\ SameHashed(first.in, second.in)
    /\ first.in.UpdatedAt # second.in.UpdatedAt
    /\ first.in.Version # second.in.Version
    /\ first.in.AccessCount # second.in.AccessCount
    /\ first.in.LastAccessed # second.in.LastAccessed
    /\ first.in.Confidence # second.in.Confidence
    /\ second.out.err = "" /\ second.out.hash.len = 64

\* the bytes "value":null
B_value_null == <<34, 118, 97, 108, 117, 101, 34, 58, 110, 117, 108, 108>>

\* C2: an object whose value is null and whose other hashed fields are valid
\* is hashable: no error, a 64-character hash over canonical bytes that
\* contain "value":null, and a hash other than that of the same object with
\* the string "null" for value.
C2_NullValueHashable ==
    /\ \A c \in {first, second} :
        (c.done /\ c.in.Value = Null /\ c.in.CreatedAt \in {T_ok, T_ok2}) =>
            /\ c.out.err = ""
            /\ c.out.hash.len = 64
            /\ Contains(c.out.canonical, B_value_null)
    /\ (/\ second.done /\ first.in.Value = Null
        /\ second.in = [first.in EXCEPT !.Value = Str(S_null)]) =>
            first.out.hash # second.out.hash

\* C3: two calls of ContentHash on the same object return the same result,
\* whatever order the runtime iterates the field map and the maps in value.
C3_Determinism ==
    (second.done /\ first.in = second.in) => first.out = second.out

\* the same object, whose value is a map with two keys, was hashed twice
C3_Witness ==
    /\ second.done /\ first.in = second.in
    /\ first.in.Value.t = "map" /\ Cardinality(DOMAIN first.in.Value.v) = 2
    /\ second.out.err = ""

\* a and b are the same but for category, key, source or a string value,
\* which are canonically equivalent
ScalarsEquivalent(a, b) ==
    /\ CanonEquiv(a.Category, b.Category)
    /\ CanonEquiv(a.Key, b.Key)
    /\ CanonEquiv(a.Source, b.Source)
    /\ \/ a.Value = b.Value
       \/ a.Value.t = "str" /\ b.Value.t = "str" /\ CanonEquiv(a.Value.v, b.Value.v)
    /\ a.CreatedAt = b.CreatedAt
    /\ a.Relationships = b.Relationships
    /\ SameMeta(a, b)

\* C4: two objects identical but for category, key, source or a string
\* value replaced by a canonically equivalent string get the same hash.
C4_NFCScalars ==
    (second.done /\ ScalarsEquivalent(first.in, second.in)) => SameOutcome

\* a decomposed string value was replaced by its precomposed form, and both
\* objects were hashed
C4_Witness ==
    /\ second.done /\ ScalarsEquivalent(first.in, second.in)
    /\ first.in.Value.t = "str" /\ first.in.Value # second.in.Value
    /\ second.out.err = ""

\* a and b are the same but for relationship keys and types, which are
\* canonically equivalent entry by entry
RelsEquivalent(a, b) ==
    /\ Len(a.Relationships) = Len(b.Relationships)
    /\ \A i \in 1..Len(a.Relationships) :
        /\ CanonEquiv(a.Relationships[i].Key, b.Relationships[i].Key)
        /\ CanonEquiv(a.Relationships[i].Type, b.Relationships[i].Type)
    /\ a.Category = b.Category /\ a.CreatedAt = b.CreatedAt /\ a.Key = b.Key
    /\ a.Source = b.Source /\ a.Value = b.Value
    /\ SameMeta(a, b)

\* C5: two objects identical but for relationship key or type strings
\* replaced by canonically equivalent strings get the same hash, for lists
\* of any length.
C5_NFCRelationships ==
    (second.done /\ RelsEquivalent(first.in, second.in)) => SameOutcome

\* how often x occurs in the sequence q
Count(q, x) == Cardinality({i \in 1..Len(q) : q[i] = x})

IsPermutation(p, q) ==
    /\ Len(p) = Len(q)
    /\ \A i \in 1..Len(p) : Count(p, p[i]) = Count(q, p[i])

\* the list is in canonical order: by key, then by type
InCanonicalOrder(q) ==
    \A i \in 1..(Len(q) - 1) :
        \/ StrLess(q[i].Key, q[i + 1].Key)
        \/ q[i].Key = q[i + 1].Key /\ ~StrLess(q[i + 1].Type, q[i].Type)

\* C6: an object and the same object with its relationships permuted, the
\* canonical (key, then type) order included, get the same hash.
C6_RelationshipOrder ==
    (/\ second.done
     /\ IsPermutation(first.in.Relationships, second.in.Relationships)
     /\ SameHashed([first.in EXCEPT !.Relationships = <<>>],
                   [second.in EXCEPT !.Relationships = <<>>]))
        => SameOutcome

\* a list out of canonical order and the same entries in canonical order
\* were hashed
C6_Witness ==
    /\ second.done
    /\ IsPermutation(first.in.Relationships, second.in.Relationships)
    /\ first.in.Relationships # second.in.Relationships
    /\ ~InCanonicalOrder(first.in.Relationships)
    /\ InCanonicalOrder(second.in.Relationships)
    /\ SameHashed([first.in EXCEPT !.Relationships = <<>>],
                  [second.in EXCEPT !.Relationships = <<>>])
    /\ second.out.err = ""

(***************************************************************************)
(* SpecCanon: CanonicalizeObject applied to a map.                         *)
(***************************************************************************)
\* the keys b, a and a" of the outer map; z and U+00E9 of an inner map
TopKeys == {<<98>>, <<97>>, <<97, 34>>}
InnerKeys == {<<122>>, S_nfc}

\* nil, true, the literal 42, the int -7 and the string c "
Leaves == {Null, Bool(TRUE), Num(<<52, 50>>), Int_(-7), Str(<<99, 32, 34>>)}
FewLeaves == {Null, Int_(-7), Str(<<99, 32, 34>>)}

\* the maps from some of the keys K to values in V
MapsOver(K, V) == UNION {[d -> V] : d \in SUBSET K}

Containers ==
    {Arr(q) : q \in SeqsUpTo(Leaves, MaxArr)}
    \cup {Map(f) : f \in MapsOver(InnerKeys, Leaves)}

\* maps over TopKeys with at most one entry that is a container
CanonInputs ==
    UNION {{[k \in d |-> IF k = p THEN c ELSE f[k]] :
               p \in d, c \in Containers \cup Leaves, f \in [d -> FewLeaves]} :
           d \in SUBSET TopKeys}
    \cup {<<>>}

InitCanon ==
    /\ cin \in CanonInputs
    /\ cout = NoRes
    /\ IdleHash
    /\ IdleTime
    /\ IdleVerify
    /\ IdleIngest
    /\ IdleSha
    /\ IdleSort

\* result, err := CanonicalizeObject(obj)
Canonicalize ==
    /\ ~cout.done
    /\ \E seed \in Seeds : cout' = Res(CanonicalizeObject(cin, seed))
    /\ UNCHANGED <<pc, obj, first, second, cin, tin, tout, vfile, vout, hin, ival, iout, sha, rin, rout>>

NextCanon == Canonicalize

SpecCanon == InitCanon /\ [][NextCanon]_vars

(***************************************************************************)
(* SpecTime: NormalizeTimestamp applied to a string.                       *)
(***************************************************************************)
\* dates: 2025-01-15, 2024-02-29, 2023-02-29, 2025-13-01, 25-01-15
TsDates ==
    { <<50, 48, 50, 53, 45, 48, 49, 45, 49, 53>>,
      <<50, 48, 50, 52, 45, 48, 50, 45, 50, 57>>,
      <<50, 48, 50, 51, 45, 48, 50, 45, 50, 57>>,
      <<50, 48, 50, 53, 45, 49, 51, 45, 48, 49>>,
      <<50, 53, 45, 48, 49, 45, 49, 53>> }

\* hours: T10, T24, T1, t10
TsHours ==
    { <<84, 49, 48>>,
      <<84, 50, 52>>,
      <<84, 49>>,
      <<116, 49, 48>> }

\* minutes and seconds: :30:00, :60:00, :30:5
TsMinSecs ==
    { <<58, 51, 48, 58, 48, 48>>,
      <<58, 54, 48, 58, 48, 48>>,
      <<58, 51, 48, 58, 53>> }

\* fractions: none, ".", .1, .12, .123, .1234, .+12, .12.123 and ,123
TsFracs ==
    { <<>>,
      <<46>>,
      <<46, 49>>,
      <<46, 49, 50>>,
      <<46, 49, 50, 51>>,
      <<46, 49, 50, 51, 52>>,
      <<46, 43, 49, 50>>,
      <<46, 49, 50, 46, 49, 50, 51>>,
      <<44, 49, 50, 51>> }

\* suffixes: Z, none, +00:00, z
TsSuffixes ==
    { <<90>>,
      <<>>,
      <<43, 48, 48, 58, 48, 48>>,
      <<122>> }

\* the strings "", Z, .Z and ..Z
TsOdd ==
    { <<>>,
      <<90>>,
      <<46, 90>>,
      <<46, 46, 90>> }

TsInputs ==
    {d \o h \o m \o f \o z :
        d \in TsDates, h \in TsHours, m \in TsMinSecs, f \in TsFracs,
        z \in TsSuffixes}
    \cup TsOdd

InitTime ==
    /\ tin \in TsInputs
    /\ tout = NoRes
    /\ IdleHash
    /\ IdleCanon
    /\ IdleVerify
    /\ IdleIngest
    /\ IdleSha
    /\ IdleSort

\* result, err := NormalizeTimestamp(s)
Normalize ==
    /\ ~tout.done
    /\ tout' = Res(NormalizeTimestamp(tin))
    /\ UNCHANGED <<pc, obj, first, second, cin, cout, tin, vfile, vout, hin, ival, iout, sha, rin, rout>>

NextTime == Normalize

SpecTime == InitTime /\ [][NextTime]_vars

(***************************************************************************)
(* A strict reader of JSON text, used to state what the emitted bytes are. *)
(* It accepts no whitespace between tokens and keeps the members of an     *)
(* object in the order they are written: an object reads as                *)
(* [t |-> "obj", v |-> [keys |-> <<...>>, vals |-> <<...>>]], a number as  *)
(* its text.                                                               *)
(***************************************************************************)
Obj(keys, vals) == [t |-> "obj", v |-> [keys |-> keys, vals |-> vals]]
PFail == [ok |-> FALSE, next |-> 0, v |-> Null]
POk(next, v) == [ok |-> TRUE, next |-> next, v |-> v]

\* the value of a lowercase hexadecimal digit, -1 for any other byte
HexVal(c) ==
    IF c >= 48 /\ c <= 57 THEN c - 48
    ELSE IF c >= 97 /\ c <= 102 THEN c - 87 ELSE -1

\* the character a two-byte escape \c stands for, -1 when there is none
Unescape(c) ==
    CASE c = 34 -> 34 [] c = 92 -> 92 [] c = 98 -> 8 [] c = 102 -> 12
      [] c = 110 -> 10 [] c = 114 -> 13 [] c = 116 -> 9 [] OTHER -> -1

RECURSIVE ReadChars(_, _, _)
RECURSIVE ReadNumber(_, _)
RECURSIVE ReadValue(_, _)
RECURSIVE ReadMembers(_, _, _, _)
RECURSIVE ReadElems(_, _, _)

\* the rest of a string whose opening quote came before b[i]
ReadChars(b, i, acc) ==
    IF i > Len(b) THEN PFail
    ELSE IF b[i] = 34 THEN POk(i + 1, Str(acc))
    ELSE IF b[i] = 92
         THEN IF i + 1 > Len(b) THEN PFail
              ELSE IF Unescape(b[i + 1]) >= 0
                   THEN ReadChars(b, i + 2, Append(acc, Unescape(b[i + 1])))
              ELSE IF /\ b[i + 1] = 117 /\ i + 5 <= Len(b)
                      /\ b[i + 2] = 48 /\ b[i + 3] = 48
                      /\ HexVal(b[i + 4]) >= 0 /\ HexVal(b[i + 5]) >= 0
                   THEN ReadChars(b, i + 6,
                            Append(acc, HexVal(b[i + 4]) * 16 + HexVal(b[i + 5])))
              ELSE PFail
    ELSE IF b[i] < 32 THEN PFail
    ELSE ReadChars(b, i + 1, Append(acc, b[i]))

\* the index after the run of number characters that starts at b[i]
ReadNumber(b, i) ==
    IF i <= Len(b) /\ (IsDigitAt(b, i) \/ b[i] \in {43, 45, 46, 69, 101})
    THEN ReadNumber(b, i + 1) ELSE i

ReadValue(b, i) ==
    IF i > Len(b) THEN PFail
    ELSE CASE b[i] = 123 ->
                IF i + 1 <= Len(b) /\ b[i + 1] = 125 THEN POk(i + 2, Obj(<<>>, <<>>))
                ELSE ReadMembers(b, i + 1, <<>>, <<>>)
           [] b[i] = 91 ->
                IF i + 1 <= Len(b) /\ b[i + 1] = 93 THEN POk(i + 2, Arr(<<>>))
                ELSE ReadElems(b, i + 1, <<>>)
           [] b[i] = 34 -> ReadChars(b, i + 1, <<>>)
           [] b[i] = 110 ->
                IF i + 3 <= Len(b) /\ SubSeq(b, i, i + 3) = <<110, 117, 108, 108>>
                THEN POk(i + 4, Null) ELSE PFail
           [] b[i] = 116 ->
                IF i + 3 <= Len(b) /\ SubSeq(b, i, i + 3) = <<116, 114, 117, 101>>
                THEN POk(i + 4, Bool(TRUE)) ELSE PFail
           [] b[i] = 102 ->
                IF i + 4 <= Len(b) /\ SubSeq(b, i, i + 4) = <<102, 97, 108, 115, 101>>
                THEN POk(i + 5, Bool(FALSE)) ELSE PFail
           [] b[i] = 45 \/ IsDigitAt(b, i) ->
                POk(ReadNumber(b, i), Num(SubSeq(b, i, ReadNumber(b, i) - 1)))
           [] OTHER -> PFail

\* "key":value pairs up to the closing brace, the first key at b[i]
ReadMembers(b, i, keys, vals) ==
    IF i > Len(b) \/ b[i] # 34 THEN PFail
    ELSE LET k == ReadChars(b, i + 1, <<>>)
         IN  IF ~k.ok \/ k.next > Len(b) \/ b[k.next] # 58 THEN PFail
             ELSE LET val == ReadValue(b, k.next + 1)
                  IN  IF ~val.ok \/ val.next > Len(b) THEN PFail
                      ELSE IF b[val.next] = 44
                           THEN ReadMembers(b, val.next + 1, Append(keys, k.v.v),
                                            Append(vals, val.v))
                      ELSE IF b[val.next] = 125
                           THEN POk(val.next + 1,
                                    Obj(Append(keys, k.v.v), Append(vals, val.v)))
                      ELSE PFail

\* values up to the closing bracket, the first at b[i]
ReadElems(b, i, elems) ==
    LET val == ReadValue(b, i)
    IN  IF ~val.ok \/ val.next > Len(b) THEN PFail
        ELSE IF b[val.next] = 44 THEN ReadElems(b, val.next + 1, Append(elems, val.v))
        ELSE IF b[val.next] = 93 THEN POk(val.next + 1, Arr(Append(elems, val.v)))
        ELSE PFail

\* the whole of b read as one value
ReadJSON(b) ==
    LET r == ReadValue(b, 1)
    IN  IF r.ok /\ r.next = Len(b) + 1 THEN r ELSE PFail

RECURSIVE KeysAscending(_)
\* in every object that was read, each key is byte-wise above the one before
KeysAscending(tree) ==
    CASE tree.t = "obj" ->
            /\ \A j \in 1..(Len(tree.v.keys) - 1) :
                  StrLess(tree.v.keys[j], tree.v.keys[j + 1])
            /\ \A j \in 1..Len(tree.v.vals) : KeysAscending(tree.v.vals[j])
      [] tree.t = "arr" -> \A j \in 1..Len(tree.v) : KeysAscending(tree.v[j])
      [] OTHER -> TRUE

RECURSIVE Renders(_, _)
\* what was read is the value val: the same keys, each once, the same
\* elements at the same index, the same scalars
Renders(tree, val) ==
    CASE val.t = "map" ->
            /\ tree.t = "obj"
            /\ Len(tree.v.keys) = Cardinality(DOMAIN val.v)
            /\ {tree.v.keys[j] : j \in 1..Len(tree.v.keys)} = DOMAIN val.v
            /\ \A j \in 1..Len(tree.v.keys) :
                  Renders(tree.v.vals[j], val.v[tree.v.keys[j]])
      [] val.t = "arr" ->
            /\ tree.t = "arr"
            /\ Len(tree.v) = Len(val.v)
            /\ \A j \in 1..Len(val.v) : Renders(tree.v[j], val.v[j])
      [] val.t = "int" -> tree = Num(Itoa(val.v))
      [] OTHER -> tree = val

RECURSIVE KeysOnce(_, _)
\* every key of every map of val was written, and written once
KeysOnce(tree, val) ==
    CASE val.t = "map" ->
            /\ tree.t = "obj"
            /\ Len(tree.v.keys) = Cardinality(DOMAIN val.v)
            /\ {tree.v.keys[j] : j \in 1..Len(tree.v.keys)} = DOMAIN val.v
            /\ \A j \in 1..Len(tree.v.keys) :
                  KeysOnce(tree.v.vals[j], val.v[tree.v.keys[j]])
      [] val.t = "arr" ->
            /\ tree.t = "arr"
            /\ Len(tree.v) = Len(val.v)
            /\ \A j \in 1..Len(val.v) : KeysOnce(tree.v[j], val.v[j])
      [] OTHER -> TRUE

RECURSIVE ArraysInOrder(_, _)
\* every array of val was written with as many elements, the i-th written
\* being the i-th of the input
ArraysInOrder(tree, val) ==
    CASE val.t = "arr" ->
            /\ tree.t = "arr"
            /\ Len(tree.v) = Len(val.v)
            /\ \A j \in 1..Len(val.v) : Renders(tree.v[j], val.v[j])
      [] val.t = "map" ->
            /\ tree.t = "obj"
            /\ \A j \in 1..Len(tree.v.keys) :
                  /\ tree.v.keys[j] \in DOMAIN val.v
                  /\ ArraysInOrder(tree.v.vals[j], val.v[tree.v.keys[j]])
      [] OTHER -> TRUE

RECURSIVE HasNull(_)
\* val is null or holds a null at some depth
HasNull(val) ==
    CASE val.t = "null" -> TRUE
      [] val.t = "map" -> \E k \in DOMAIN val.v : HasNull(val.v[k])
      [] val.t = "arr" -> \E j \in 1..Len(val.v) : HasNull(val.v[j])
      [] OTHER -> FALSE

\* C7: CanonicalizeObject preserves null: an entry whose value is null, at
\* any depth, is no cause of failure, and a null entry of the map is
\* emitted as "<key>":null.
C7_NullPreserved ==
    (cout.done /\ HasNull(Map(cin))) =>
        /\ cout.err # "CANON_ERR_NULL_PROHIBITED"
        /\ cout.err = "" =>
              \A k \in DOMAIN cin :
                  cin[k] = Null =>
                      Contains(cout.bytes,
                               canonicalizeString(k).bytes \o <<58, 110, 117, 108, 108>>)

\* C8: for every map CanonicalizeObject accepts, the output is JSON without
\* whitespace between tokens in which, at every nesting level, the keys are
\* in strictly ascending byte-wise order and each key of the input appears
\* once, pairs separated by ',' and key and value by ':'.
C8_KeyOrder ==
    (cout.done /\ cout.err = "") =>
        LET r == ReadJSON(cout.bytes)
        IN  /\ r.ok
            /\ KeysAscending(r.v)
            /\ KeysOnce(r.v, Map(cin))

\* an accepted map with three keys, one of them an inner map with two keys
C8_Witness ==
    /\ cout.done /\ cout.err = ""
    /\ DOMAIN cin = TopKeys
    /\ \E k \in DOMAIN cin : cin[k].t = "map" /\ DOMAIN cin[k].v = InnerKeys

\* C9: CanonicalizeObject never reorders arrays: the i-th emitted element is
\* the i-th input element in canonical form, and an empty array is emitted
\* as [].
C9_ArrayOrder ==
    (cout.done /\ cout.err = "") =>
        LET r == ReadJSON(cout.bytes)
        IN  /\ r.ok
            /\ ArraysInOrder(r.v, Map(cin))
            /\ \A k \in DOMAIN cin :
                  cin[k] = Arr(<<>>) =>
                      Contains(cout.bytes, canonicalizeString(k).bytes \o <<58, 91, 93>>)

\* an accepted map with an array of two different elements
C9_Witness ==
    /\ cout.done /\ cout.err = ""
    /\ \E k \in DOMAIN cin :
          /\ cin[k].t = "arr" /\ Len(cin[k].v) = 2
          /\ cin[k].v[1] # cin[k].v[2]

\* the length of what stands between the last '.' of s and its last byte
AfterLastDot(s) ==
    LET dots == {i \in 1..Len(s) : s[i] = 46}
    IN  Len(s) - 1 - (CHOOSE i \in dots : \A j \in dots : j <= i)

\* s is a valid date-time of the exact shape YYYY-MM-DDTHH:MM:SS.sssZ
ExactShape(s) ==
    /\ Len(s) = 24
    /\ \A i \in {1, 2, 3, 4, 6, 7, 9, 10, 12, 13, 15, 16, 18, 19, 21, 22, 23} :
          IsDigitAt(s, i)
    /\ s[5] = 45 /\ s[8] = 45 /\ s[11] = 84 /\ s[14] = 58 /\ s[17] = 58
    /\ s[20] = 46 /\ s[24] = 90
    /\ LET num2(i) == (s[i] - 48) * 10 + (s[i + 1] - 48)
           year == (s[1] - 48) * 1000 + (s[2] - 48) * 100 + num2(3)
           leap == year % 4 = 0 /\ (year % 100 # 0 \/ year % 400 = 0)
           month == num2(6)
           days == IF month = 2 THEN (IF leap THEN 29 ELSE 28)
                   ELSE IF month \in {4, 6, 9, 11} THEN 30 ELSE 31
       IN  /\ month \in 1..12
           /\ num2(9) \in 1..days
           /\ num2(12) \in 0..23 /\ num2(15) \in 0..59 /\ num2(18) \in 0..59

\* C10: NormalizeTimestamp rejects, in this order: a string not ending in Z
\* with CANON_ERR_TIMESTAMP_NON_UTC; a string ending in Z without '.' or
\* with other than 3 characters between the last '.' and the final Z with
\* CANON_ERR_TIMESTAMP_INVALID_PRECISION; any remaining string that is not
\* a valid date-time of the exact shape YYYY-MM-DDTHH:MM:SS.sssZ with an
\* error.
C10_TimestampRejects ==
    tout.done =>
        LET z == Len(tin) >= 1 /\ tin[Len(tin)] = 90
            dot == \E i \in 1..Len(tin) : tin[i] = 46
        IN  /\ ~z => tout.err = "CANON_ERR_TIMESTAMP_NON_UTC"
            /\ (z /\ (~dot \/ AfterLastDot(tin) # 3)) =>
                  tout.err = "CANON_ERR_TIMESTAMP_INVALID_PRECISION"
            /\ (z /\ dot /\ AfterLastDot(tin) = 3 /\ ~ExactShape(tin)) =>
                  tout.err # ""

\* C11: whenever NormalizeTimestamp accepts a string, what it returns has
\* the shape YYYY-MM-DDTHH:MM:SS.sssZ with three fractional digits and is
\* equal to the input; and NormalizeTimestamp applied to it returns it again.
C11_TimestampFixedPoint ==
    (tout.done /\ tout.err = "") =>
        /\ ExactShape(tout.bytes)
        /\ tout.bytes = tin
        /\ NormalizeTimestamp(tout.bytes) = Ok(tout.bytes)

\* the characters 0-9 and a-f
HexChars == (48..57) \cup (97..102)

\* C12: every call of ContentHash ends in one of two ways: no error and a
\* string of exactly 64 characters, all in [0-9a-f]; or an error and the
\* empty string. A non-empty hash never comes with an error.
C12_HashOrError ==
    \A c \in {first, second} :
        c.done =>
            \/ /\ c.out.err = ""
               /\ Len(c.out.hash.hex) = 64
               /\ \A i \in 1..64 : c.out.hash.hex[i] \in HexChars
            \/ /\ c.out.err # ""
               /\ c.out.hash.hex = <<>>

\* one call ended with an error, the next with a hash
C12_Witness ==
    /\ second.done
    /\ first.out.err # "" /\ first.out.hash.hex = <<>>
    /\ second.out.err = "" /\ Len(second.out.hash.hex) = 64

(***************************************************************************)
(* package verify and the hash command of the CLI.  A decoded JSON object  *)
(* is a function from keys (byte strings) to values.  A string that holds  *)
(* a digest is Str(h) with h as Sha256Hex builds it (NoHash for "").       *)
(***************************************************************************)
\* longest "vectors" array of a vectors file
MaxVectors == 2

K_name == <<110, 97, 109, 101>>
K_vector_id == <<118, 101, 99, 116, 111, 114, 95, 105, 100>>
K_description == <<100, 101, 115, 99, 114, 105, 112, 116, 105, 111, 110>>
K_input == <<105, 110, 112, 117, 116>>
K_expected_content_hash ==
    <<101, 120, 112, 101, 99, 116, 101, 100, 95, 99,
      111, 110, 116, 101, 110, 116, 95, 104, 97, 115, 104>>
K_hash == <<104, 97, 115, 104>>
K_vector_type == <<118, 101, 99, 116, 111, 114, 95, 116, 121, 112, 101>>
K_updated_at == <<117, 112, 100, 97, 116, 101, 100, 95, 97, 116>>
K_version == <<118, 101, 114, 115, 105, 111, 110>>
K_access_count == <<97, 99, 99, 101, 115, 115, 95, 99, 111, 117, 110, 116>>
K_last_accessed ==
    <<108, 97, 115, 116, 95, 97,
      99, 99, 101, 115, 115, 101, 100>>
K_confidence == <<99, 111, 110, 102, 105, 100, 101, 110, 99, 101>>

\* v, ok := input[k].(string): the string under k, "" when k is missing or
\* holds anything but a string
StringField(input, k) ==
    IF k \in DOMAIN input /\ input[k].t = "str" THEN input[k].v ELSE <<>>

RECURSIVE DigitsValue(_, _)
\* the number the decimal digits s denote, after acc
DigitsValue(s, acc) ==
    IF s = <<>> THEN acc ELSE DigitsValue(Tail(s), acc * 10 + (Head(s) - 48))

\* n, _ := vv.Int64() for a json.Number: 0 when the literal is no integer
NumberInt64(lit) ==
    LET neg == lit # <<>> /\ lit[1] = 45
        ds == IF neg THEN Tail(lit) ELSE lit
    IN  IF ds = <<>> \/ \E i \in 1..Len(ds) : ~IsDigitAt(ds, i) THEN 0
        ELSE IF neg THEN 0 - DigitsValue(ds, 0) ELSE DigitsValue(ds, 0)

\* the switch on input[k]: a json.Number converted, 0 for anything else
NumberField(input, k) ==
    IF k \in DOMAIN input /\ input[k].t = "num" THEN NumberInt64(input[k].v) ELSE 0

RECURSIVE AppendRelationships(_, _)
\* the loop over input["relationships"]: one Relationship per element that
\* is an object, its Key and Type the strings under "key" and "type"
AppendRelationships(rels, i) ==
    IF i > Len(rels) THEN <<>>
    ELSE IF rels[i].t = "map"
         THEN <<Rel(StringField(rels[i].v, K_key), StringField(rels[i].v, K_type))>>
              \o AppendRelationships(rels, i + 1)
    ELSE AppendRelationships(rels, i + 1)

\* obj.Relationships as both converters leave it.  A nil slice and an empty
\* one are both <<>>: ContentHash reads the length and the elements only.
RelationshipsField(input) ==
    IF K_relationships \in DOMAIN input /\ input[K_relationships].t = "arr"
    THEN AppendRelationships(input[K_relationships].v, 1)
    ELSE <<>>

\* obj.Value = input["value"]: nil when the key is missing
ValueField(input) == IF K_value \in DOMAIN input THEN input[K_value] ELSE Null

\* the verifier's converter; Confidence is the integer the literal denotes
inputToMemoryObject(input) ==
    MemoryObject(StringField(input, K_category), StringField(input, K_created_at),
                 StringField(input, K_key), RelationshipsField(input),
                 StringField(input, K_source), ValueField(input),
                 Meta(StringField(input, K_updated_at), NumberField(input, K_version),
                      NumberField(input, K_access_count),
                      StringField(input, K_last_accessed),
                      NumberField(input, K_confidence)))

\* the CLI's converter: the six hashed fields only
mapToMemoryObject(input) ==
    MemoryObject(StringField(input, K_category), StringField(input, K_created_at),
                 StringField(input, K_key), RelationshipsField(input),
                 StringField(input, K_source), ValueField(input),
                 Meta(<<>>, 0, 0, <<>>, 0))

\* encoding/json can store what is under k into a string field: the key is
\* missing, or holds a string or null
DecodesAsString(doc, k) == k \in DOMAIN doc => doc[k].t \in {"str", "null"}

\* dec.Decode(&vf) succeeds on the element doc of "vectors"
DecodesAsVector(doc) ==
    /\ DecodesAsString(doc, K_name)
    /\ DecodesAsString(doc, K_description)
    /\ DecodesAsString(doc, K_expected_content_hash)
    /\ K_input \in DOMAIN doc => doc[K_input].t \in {"map", "null"}

\* the TestVector decoded from doc: the fields the struct tags name, zero
\* values for those the document lacks, every other key ignored
TestVector(doc) ==
    [Name |-> StringField(doc, K_name),
     Description |-> StringField(doc, K_description),
     Input |-> IF K_input \in DOMAIN doc /\ doc[K_input].t = "map"
               THEN doc[K_input].v ELSE <<>>,
     ExpectedContentHash |->
        IF K_expected_content_hash \in DOMAIN doc
           /\ doc[K_expected_content_hash].t = "str"
        THEN doc[K_expected_content_hash].v ELSE NoHash]

\* a faulty VerifyResult: every vector passes
VerifyResult_pass(name, expected, got, pass) ==
    [Name |-> name, Expected |-> expected, Got |-> got, Pass |-> TRUE]

VerifyResult(name, expected, got, pass) ==
    [Name |-> name, Expected |-> expected, Got |-> got, Pass |-> pass]

(***************************************************************************)
(* SpecVerify: a caller writes a vectors file and runs VerifyVectors on    *)
(* it; where the file has a placeholder for an expected hash, the caller   *)
(* writes the hash the run reported in its place and runs VerifyVectors    *)
(* again (the shape of the tests of package verify).  VerifyVectors is     *)
(* followed statement by statement: pc is "read" before the file is        *)
(* decoded, "loop" at the head of the loop, "hash" between the conversion  *)
(* of a vector's input and its hashing, "returned" after the return.       *)
(***************************************************************************)
\* m without the key k, and m with v under k
Without(m, k) == [x \in DOMAIN m \ {k} |-> m[x]]
With(m, k, v) == [x \in DOMAIN m \cup {k} |-> IF x = k THEN v ELSE m[x]]

\* the input of the verifier's tests: every hashed field present and valid
BaseInput ==
    (K_schema :> Str(<<49>>)) @@ (K_category :> Str(S_t))
    @@ (K_created_at :> Str(T_ok)) @@ (K_key :> Str(S_f))
    @@ (K_relationships :> Arr(<<>>)) @@ (K_source :> Str(S_f))
    @@ (K_value :> Str(S_nfc))

\* BaseInput without a schema version, with the schema version "2", with
\* a created_at that has an offset, and with a null value
I_noschema == Without(BaseInput, K_schema)
I_schema2 == With(BaseInput, K_schema, Str(<<50>>))
I_badts == With(BaseInput, K_created_at, Str(T_offset))
I_nullvalue == With(BaseInput, K_value, Null)

\* the string PLACEHOLDER where an expected hash goes: the digest of nothing
Placeholder ==
    [len |-> 11, of |-> <<>>, hex |-> <<80, 76, 65, 67, 69, 72, 79, 76, 68, 69, 82>>]

\* a digest that is the hash of no object (the 64 zeros of the tests)
WrongHash == [len |-> 64, of |-> <<>>, hex |-> [i \in 1..64 |-> 48]]

\* a vector with the keys the struct tags of TestVector name
TaggedVector(name, input, expected) ==
    (K_name :> Str(name)) @@ (K_description :> Str(S_t))
    @@ (K_input :> Map(input)) @@ (K_expected_content_hash :> Str(expected))

\* a vector with the keys the tests write
TestFileVector(name, input, expected) ==
    (K_vector_id :> Str(name)) @@ (K_description :> Str(S_t))
    @@ (K_vector_type :> Str(S_f)) @@ (K_input :> Map(input))
    @@ (K_hash :> Str(expected))

\* the name "v" followed by the digit n
VName(n) == <<118, 48 + n>>

VectorDocs ==
    { TaggedVector(VName(1), BaseInput, Placeholder),
      TaggedVector(VName(2), BaseInput, WrongHash),
      TaggedVector(VName(3), I_badts, WrongHash),
      TaggedVector(VName(4), I_nullvalue, WrongHash),
      TaggedVector(VName(5), I_noschema, Placeholder),
      TaggedVector(VName(6), I_schema2, Placeholder),
      TestFileVector(VName(7), BaseInput, Placeholder),
      TestFileVector(VName(8), BaseInput, WrongHash),
      With(TaggedVector(VName(9), BaseInput, WrongHash), K_name, Num(<<55>>)) }

VectorFiles == SeqsUpTo(VectorDocs, MaxVectors)

\* the key under which the document of a vector keeps its expected hash
HashKey(doc) == IF K_hash \in DOMAIN doc THEN K_hash ELSE K_expected_content_hash

InitVerify ==
    /\ pc = "read"
    /\ vfile \in VectorFiles
    /\ vout = NoVerified
    /\ obj = baseObject /\ first = NoCall /\ second = NoCall
    /\ hin = <<>>
    /\ IdleCanon
    /\ IdleTime
    /\ IdleIngest
    /\ IdleSha
    /\ IdleSort

\* os.ReadFile and dec.Decode(&vf), then results := make(...)
ReadVectors ==
    /\ pc = "read"
    /\ IF \E i \in 1..Len(vfile) : ~DecodesAsVector(vfile[i])
       THEN /\ vout' = Verified(vout.run, <<>>, TRUE, "failed to parse vectors file", "")
            /\ pc' = "returned"
       ELSE /\ vout' = VerifyState(vout.run, 1, <<>>, 0)
            /\ pc' = "loop"
    /\ UNCHANGED <<obj, first, second, cin, cout, tin, tout, vfile, hin, ival, iout, sha, rin, rout>>

\* obj, err := inputToMemoryObject(vec.Input), which returns no error
ConvertVector ==
    /\ pc = "loop"
    /\ vout.i <= Len(vfile)
    /\ obj' = inputToMemoryObject(TestVector(vfile[vout.i]).Input)
    /\ pc' = "hash"
    /\ UNCHANGED <<first, second, cin, cout, tin, tout, vfile, vout, hin, ival, iout, sha, rin, rout>>

\* got, err := hash.ContentHash(obj) and the rest of the loop body
HashVector ==
    /\ pc = "hash"
    /\ \E seed \in Seeds : \E got \in {ContentHash(obj, seed)} :
        LET vec == TestVector(vfile[vout.i])
            pass == got.hash = vec.ExpectedContentHash
        IN  IF got.err # ""
            THEN /\ vout' = Verified(vout.run, <<>>, TRUE, "hash failed", got.err)
                 /\ pc' = "returned"
            ELSE /\ vout' = VerifyState(vout.run, vout.i + 1,
                                Append(vout.results,
                                       VerifyResult(vec.Name, vec.ExpectedContentHash,
                                                    got.hash, pass)),
                                IF pass THEN vout.failures ELSE vout.failures + 1)
                 /\ pc' = "loop"
    /\ UNCHANGED <<obj, first, second, cin, cout, tin, tout, vfile, hin, ival, iout, sha, rin, rout>>

\* after the loop: the error when failures > 0, and the return
ReturnResults ==
    /\ pc = "loop"
    /\ vout.i > Len(vfile)
    /\ vout' = Verified(vout.run, vout.results, FALSE,
                        IF vout.failures > 0 THEN "vectors failed verification"
                        ELSE "", "")
    /\ pc' = "returned"
    /\ UNCHANGED <<obj, first, second, cin, cout, tin, tout, vfile, hin, ival, iout, sha, rin, rout>>

\* the caller writes results[i].Got where the file had a placeholder and
\* runs VerifyVectors on the new file
RewriteFile ==
    /\ pc = "returned"
    /\ vout.run = 1
    /\ ~vout.nilResults
    /\ \E i \in 1..Len(vfile) : vfile[i][HashKey(vfile[i])] = Str(Placeholder)
    /\ vfile' = [i \in 1..Len(vfile) |->
                    IF vfile[i][HashKey(vfile[i])] = Str(Placeholder)
                    THEN With(vfile[i], HashKey(vfile[i]), Str(vout.results[i].Got))
                    ELSE vfile[i]]
    /\ vout' = VerifyState(2, 0, <<>>, 0)
    /\ pc' = "read"
    /\ UNCHANGED <<obj, first, second, cin, cout, tin, tout, hin, ival, iout, sha, rin, rout>>

NextVerify ==
    \/ ReadVectors
    \/ ConvertVector
    \/ HashVector
    \/ ReturnResults
    \/ RewriteFile

SpecVerify == InitVerify /\ [][NextVerify]_vars

\* what hashing the object built from a vector's input gives
HashOfInput(input) == ContentHash(inputToMemoryObject(input), 0)

\* the file was read and parsed
FileParsed == \A i \in 1..Len(vfile) : DecodesAsVector(vfile[i])

\* the hash of every vector of the file can be computed
AllComputable ==
    \A i \in 1..Len(vfile) : HashOfInput(TestVector(vfile[i]).Input).err = ""

C14_ResultsKept ==
    (vout.done /\ FileParsed /\ vout.err # "") =>
        /\ ~vout.nilResults
        /\ Len(vout.results) = Len(vfile)

\* doc is written as the tests write a vector, and the digest under "hash" is
\* the hash computed for its input
TestLayoutWithActualHash(doc) ==
    /\ {K_vector_id, K_hash, K_input} \subseteq DOMAIN doc
    /\ K_name \notin DOMAIN doc /\ K_expected_content_hash \notin DOMAIN doc
    /\ doc[K_input].t = "map"
    /\ HashOfInput(doc[K_input].v).err = ""
    /\ doc[K_hash] = Str(HashOfInput(doc[K_input].v).hash)

\* C15: for a file in the layout the tests use (identifier under vector_id,
\* expected digest under hash, and extra fields), a vector whose expected
\* digest is the hash computed for its input is reported with Pass true and
\* Expected that digest, and VerifyVectors returns no error.
C15_TestLayoutPasses ==
    (/\ vout.done /\ Len(vfile) >= 1
     /\ \A i \in 1..Len(vfile) : TestLayoutWithActualHash(vfile[i])) =>
        /\ vout.err = ""
        /\ Len(vout.results) = Len(vfile)
        /\ \A i \in 1..Len(vout.results) :
              /\ vout.results[i].Pass
              /\ Str(vout.results[i].Expected) = vfile[i][K_hash]

\* the input lacks _helios_schema_version or holds anything but "1" there
SchemaVersionBad(input) ==
    K_schema \notin DOMAIN input \/ input[K_schema] # Str(<<49>>)

\* C16: a memory object whose _helios_schema_version is absent or not the
\* string "1" is rejected where VerifyVectors loads it as the input of a
\* vector: VerifyVectors reports failure and no hash is produced for it.
C16_SchemaVersionRejected ==
    (vout.done /\ FileParsed) =>
        \A i \in 1..Len(vfile) :
            SchemaVersionBad(TestVector(vfile[i]).Input) =>
                /\ vout.err # ""
                /\ i \in 1..Len(vout.results) => vout.results[i].Got = NoHash

(***************************************************************************)
(* package canon: ValidateIngestValue, and SpecIngest, which applies it to *)
(* a decoded value.                                                        *)
(***************************************************************************)
\* the digits of 1<<63 - 1 and of 1<<63
MaxInt64Digits ==
    <<57, 50, 50, 51, 51, 55, 50, 48, 51, 54,
      56, 53, 52, 55, 55, 53, 56, 48, 55>>
MinInt64Digits ==
    <<57, 50, 50, 51, 51, 55, 50, 48, 51, 54,
      56, 53, 52, 55, 55, 53, 56, 48, 56>>

RECURSIVE StripZeros(_)
\* the digits ds without leading zeros
StripZeros(ds) ==
    IF Len(ds) > 1 /\ ds[1] = 48 THEN StripZeros(Tail(ds)) ELSE ds

\* the number the digits ds denote is at most the one limit denotes
MagnitudeAtMost(ds, limit) ==
    LET d == StripZeros(ds)
    IN  \/ Len(d) < Len(limit)
        \/ Len(d) = Len(limit) /\ ~StrLess(limit, d)

\* _, err := val.Int64() returns no error: strconv.ParseInt(s, 10, 64)
\* takes an optional sign and decimal digits, and the value must fit
Int64Parses(s) ==
    LET signed == s # <<>> /\ s[1] \in {43, 45}
        ds == IF signed THEN Tail(s) ELSE s
    IN  /\ ds # <<>>
        /\ \A i \in 1..Len(ds) : IsDigitAt(ds, i)
        /\ IF s[1] = 45 THEN MagnitudeAtMost(ds, MinInt64Digits)
           ELSE MagnitudeAtMost(ds, MaxInt64Digits)

\* a faulty HasFloatIndicator: the exponent is looked for in lower case only
HasFloatIndicator_lower(s) == \E i \in 1..Len(s) : s[i] \in {46, 101}

\* strings.Contains(s, ".") || strings.Contains(s, "e") || strings.Contains(s, "E")
HasFloatIndicator(s) == \E i \in 1..Len(s) : s[i] \in {46, 101, 69}

RECURSIVE validateIngest(_, _)
RECURSIVE FirstError(_, _, _)
\* the loops over the children of a map or an array: the first error found
FirstError(children, i, seed) ==
    IF i > Len(children) THEN ""
    ELSE IF validateIngest(children[i], seed) # ""
         THEN validateIngest(children[i], seed)
    ELSE FirstError(children, i + 1, seed)

\* the error validateIngest returns, "" for nil; a map is ranged over in
\* the order the seed gives
validateIngest(val, seed) ==
    CASE val.t = "null" -> "CANON_ERR_NULL_PROHIBITED"
      [] val.t = "float" -> "CANON_ERR_FLOAT_PROHIBITED"
      [] val.t = "num" ->
            IF HasFloatIndicator(val.v) THEN "CANON_ERR_FLOAT_PROHIBITED"
            ELSE IF ~Int64Parses(val.v) THEN "CANON_ERR_INTEGER_OUT_OF_RANGE"
            ELSE ""
      [] val.t = "map" ->
            LET keys == RangeKeys(DOMAIN val.v, seed)
            IN  FirstError([i \in 1..Len(keys) |-> val.v[keys[i]]], 1, seed)
      [] val.t = "arr" -> FirstError(val.v, 1, seed)
      [] val.t \in {"str", "bool"} -> ""
      [] OTHER -> "unsupported type"

ValidateIngestValue(v, seed) == validateIngest(v, seed)

\* numeric literals: 42, -7, 0, the ends of the signed 64-bit range and
\* their neighbours, 1.5, 1e3, 2E3, a 21-digit integer, and a literal with
\* a decimal point whose integer part has 20 digits
IngestLiterals ==
    { <<52, 50>>,
      <<45, 55>>,
      <<48>>,
      <<57, 50, 50, 51, 51, 55, 50, 48, 51, 54, 56, 53, 52, 55, 55, 53, 56, 48, 55>>,
      <<57, 50, 50, 51, 51, 55, 50, 48, 51, 54, 56, 53, 52, 55, 55, 53, 56, 48, 56>>,
      <<45, 57, 50, 50, 51, 51, 55, 50, 48, 51, 54, 56, 53, 52, 55, 55, 53, 56, 48, 56>>,
      <<45, 57, 50, 50, 51, 51, 55, 50, 48, 51, 54, 56, 53, 52, 55, 55, 53, 56, 48, 57>>,
      <<49, 46, 53>>,
      <<49, 101, 51>>,
      <<50, 69, 51>>,
      <<49, 48, 48, 48, 48, 48, 48, 48, 48, 48, 48, 48, 48, 48, 48, 48, 48, 48, 48, 48, 48>>,
      <<57, 57, 57, 57, 57, 57, 57, 57, 57, 57, 57, 57, 57, 57, 57, 57, 57, 57, 57, 57, 46, 53>> }

IngestLeaves ==
    {Null, Bool(FALSE), Str(S_nfc), Int_(-7), Other, Float("finite", FALSE, <<53>>, 0)}
    \cup {Num(lit) : lit \in IngestLiterals}

\* the leaves put inside containers: a string, a null, an in-range integer,
\* one out of range and one with an exponent
NestedLeaves ==
    {Str(S_nfc), Null, Num(<<52, 50>>), Num(MinInt64Digits), Num(<<50, 69, 51>>)}

IngestValues ==
    IngestLeaves
    \cup {Arr(q) : q \in SeqsUpTo(NestedLeaves, MaxArr)}
    \cup {Map(f) : f \in MapsOver(InnerKeys, NestedLeaves)}
    \cup {Map(S_f :> Arr(<<Str(S_t), x>>)) : x \in NestedLeaves}
    \cup {Arr(<<Bool(TRUE), Map(S_f :> x)>>) : x \in NestedLeaves}

InitIngest ==
    /\ ival \in IngestValues
    /\ iout = NoValidated
    /\ IdleSha
    /\ IdleSort
    /\ IdleHash
    /\ IdleCanon
    /\ IdleTime
    /\ IdleVerify

\* err := ValidateIngestValue(v)
ValidateIngest ==
    /\ ~iout.done
    /\ \E seed \in Seeds : iout' = Validated(ValidateIngestValue(ival, seed))
    /\ UNCHANGED <<pc, obj, first, second, cin, cout, tin, tout, vfile, vout, hin,
                   ival, sha, rin, rout>>

NextIngest == ValidateIngest

SpecIngest == InitIngest /\ [][NextIngest]_vars

\* the number the five digits of s from position i on denote
Chunk(s, i) ==
    (s[i] - 48) * 10000 + (s[i + 1] - 48) * 1000 + (s[i + 2] - 48) * 100
    + (s[i + 3] - 48) * 10 + (s[i + 4] - 48)

\* the sequence a is, place by place, at most b
RECURSIVE PlacesAtMost(_, _)
PlacesAtMost(a, b) ==
    \/ a = <<>>
    \/ Head(a) < Head(b)
    \/ Head(a) = Head(b) /\ PlacesAtMost(Tail(a), Tail(b))

\* lit, an optional '-' and at most 20 digits, denotes an integer in
\* -2^63 .. 2^63 - 1: its magnitude in base 100000 against 9223 37203 68547
\* 75807 (75808 for a negative literal)
InSigned64(lit) ==
    LET neg == lit[1] = 45
        ds == IF neg THEN Tail(lit) ELSE lit
        padded == [i \in 1..(20 - Len(ds)) |-> 48] \o ds
        places == <<Chunk(padded, 1), Chunk(padded, 6), Chunk(padded, 11),
                    Chunk(padded, 16)>>
    IN  /\ Len(ds) <= 20
        /\ PlacesAtMost(places, <<9223, 37203, 68547, IF neg THEN 75808 ELSE 75807>>)

RECURSIVE Prohibited(_)
\* the errors the rules give for what val holds, at any depth
Prohibited(val) ==
    CASE val.t = "null" -> {"CANON_ERR_NULL_PROHIBITED"}
      [] val.t = "float" -> {"CANON_ERR_FLOAT_PROHIBITED"}
      [] val.t = "num" ->
            IF \E i \in 1..Len(val.v) : val.v[i] \in {46, 101, 69}
            THEN {"CANON_ERR_FLOAT_PROHIBITED"}
            ELSE IF ~InSigned64(val.v) THEN {"CANON_ERR_INTEGER_OUT_OF_RANGE"}
            ELSE {}
      [] val.t = "map" -> UNION {Prohibited(val.v[k]) : k \in DOMAIN val.v}
      [] val.t = "arr" -> UNION {Prohibited(val.v[j]) : j \in 1..Len(val.v)}
      [] val.t \in {"str", "bool"} -> {}
      [] OTHER -> {"unsupported type"}

\* C17: ValidateIngestValue returns an error if and only if the value holds,
\* at any depth of maps and arrays, a null (CANON_ERR_NULL_PROHIBITED), a
\* numeric literal with '.', 'e' or 'E' (CANON_ERR_FLOAT_PROHIBITED, also
\* when its digits are out of range), an integer literal outside the signed
\* 64-bit range (CANON_ERR_INTEGER_OUT_OF_RANGE) or a value of an
\* unsupported type; the error is one that the value gives cause for.
C17_IngestRules ==
    iout.done =>
        /\ (iout.err # "") <=> (Prohibited(ival) # {})
        /\ (iout.err # "") => iout.err \in Prohibited(ival)

\* a literal with a decimal point whose digits are also out of range was
\* refused as a float
C17_Witness ==
    /\ iout.done
    /\ ival.t = "num"
    /\ \E i \in 1..Len(ival.v) : ival.v[i] = 46
    /\ Len(ival.v) > 20
    /\ iout.err = "CANON_ERR_FLOAT_PROHIBITED"

\* the bytes of {"_helios_schema_version":"1"
SchemaPrefix ==
    <<123, 34, 95, 104, 101, 108, 105, 111, 115, 95, 115, 99, 104, 101, 109, 97, 95,
      118, 101, 114, 115, 105, 111, 110, 34, 58, 34, 49, 34>>

MaxStr == 2

\* scalars as their UTF-8 bytes: " \ U+0008 U+000C U+000A U+000D U+0009,
\* the controls U+0000 U+0001 U+000B U+001F, space / a U+007F, and beyond
\* ASCII U+0080 U+00E9 (2 bytes), U+20AC U+2028 U+FFFD (3 bytes) and
\* U+1F600 U+10FFFF (4 bytes)
Scalars ==
    { <<34>>, <<92>>, <<8>>, <<12>>, <<10>>, <<13>>, <<9>>,
      <<0>>, <<1>>, <<11>>, <<31>>, <<32>>, <<47>>, <<97>>, <<127>>,
      <<194, 128>>, <<195, 169>>,
      <<226, 130, 172>>, <<226, 128, 168>>, <<239, 191, 189>>,
      <<240, 159, 152, 128>>, <<244, 143, 191, 191>> }

RECURSIVE Flatten(_)
Flatten(q) == IF q = <<>> THEN <<>> ELSE Head(q) \o Flatten(Tail(q))

\* the strings of at most MaxStr scalars
ScalarStrings == {Flatten(q) : q \in SeqsUpTo(Scalars, MaxStr)}

\* the keys: a", a line feed before U+00E9, and U+001F before U+1F600
StringKeys ==
    { <<97, 34>>, <<10, 195, 169>>, <<31, 240, 159, 152, 128>> }

InitString ==
    /\ \E k \in StringKeys, v \in ScalarStrings : cin = (k :> Str(v))
    /\ cout = NoRes
    /\ IdleHash
    /\ IdleTime
    /\ IdleVerify
    /\ IdleIngest
    /\ IdleSha
    /\ IdleSort

SpecString == InitString /\ [][NextCanon]_vars

\* the sixteen digits 0123456789abcdef
LowerHex == <<48, 49, 50, 51, 52, 53, 54, 55, 56, 57, 97, 98, 99, 100, 101, 102>>

\* what the escape policy asks for one byte of a UTF-8 string: a byte
\* below 0x80 is a scalar of its own, a byte from 0x80 on is part of the
\* encoding of a scalar beyond ASCII and stays as it is
PolicyByte(b) ==
    CASE b = 34 -> <<92, 34>>
      [] b = 92 -> <<92, 92>>
      [] b = 8 -> <<92, 98>>
      [] b = 12 -> <<92, 102>>
      [] b = 10 -> <<92, 110>>
      [] b = 13 -> <<92, 114>>
      [] b = 9 -> <<92, 116>>
      [] b \in (0..31) \ {8, 9, 10, 12, 13} ->
            <<92, 117, 48, 48, LowerHex[(b \div 16) + 1], LowerHex[(b % 16) + 1]>>
      [] OTHER -> <<b>>

RECURSIVE PolicyBody(_)
PolicyBody(s) == IF s = <<>> THEN <<>> ELSE PolicyByte(Head(s)) \o PolicyBody(Tail(s))

PolicyString(s) == <<34>> \o PolicyBody(s) \o <<34>>

\* C19: a string, as map key or as value, is emitted as '"', then for each
\* scalar \" for '"', \\ for '\', \b \f \n \r \t for U+0008, U+000C,
\* U+000A, U+000D, U+0009, \u00XX in lowercase hex for every other code
\* point below U+0020 and the raw UTF-8 bytes for every other scalar, then
\* '"'.
C19_EscapePolicy ==
    (cout.done /\ Cardinality(DOMAIN cin) = 1
       /\ \A k \in DOMAIN cin : cin[k].t = "str") =>
        \A k \in DOMAIN cin :
            /\ cout.err = ""
            /\ cout.bytes = <<123>> \o PolicyString(k) \o <<58>>
                            \o PolicyString(cin[k].v) \o <<125>>

\* the key held U+001F and U+1F600 and the value a quote and U+20AC
C19_Witness ==
    /\ cout.done
    /\ cin = (<<31, 240, 159, 152, 128>> :> Str(<<34, 226, 130, 172>>))
    /\ cout.bytes = <<123, 34, 92, 117, 48, 48, 49, 102, 240, 159, 152, 128, 34,
                      58, 34, 92, 34, 226, 130, 172, 34, 125>>

(***************************************************************************)
(* SpecCli: the hash command run on one input file, then on another.       *)
(***************************************************************************)
\* one relationship object with both strings, with a null key, without a
\* key, and with a numeric type
R_full == Map((K_key :> Str(S_f)) @@ (K_type :> Str(S_t)))
R_nullkey == Map((K_key :> Null) @@ (K_type :> Str(S_t)))
R_nokey == Map(K_type :> Str(S_t))
R_numtype == Map((K_key :> Str(S_f)) @@ (K_type :> Num(<<52, 50>>)))

\* BaseInput, and BaseInput with one field missing, null, or of another
\* type
CliInputs ==
    { BaseInput, I_noschema,
      Without(BaseInput, K_category), With(BaseInput, K_category, Null),
      With(BaseInput, K_category, Num(<<52, 50>>)),
      Without(BaseInput, K_created_at), With(BaseInput, K_created_at, Null),
      Without(BaseInput, K_value), I_nullvalue,
      With(BaseInput, K_value, Num(<<52, 50>>)),
      Without(BaseInput, K_relationships), With(BaseInput, K_relationships, Null),
      With(BaseInput, K_relationships, Str(S_f)),
      With(BaseInput, K_relationships, Arr(<<R_full>>)),
      With(BaseInput, K_relationships, Arr(<<R_nullkey>>)),
      With(BaseInput, K_relationships, Arr(<<R_nokey>>)),
      With(BaseInput, K_relationships, Arr(<<R_numtype>>)) }

InitCli ==
    /\ pc = "start"
    /\ obj = baseObject
    /\ first = NoCall
    /\ second = NoCall
    /\ hin = <<>>
    /\ vfile = <<>>
    /\ vout = NoVerified
    /\ IdleCanon
    /\ IdleTime
    /\ IdleIngest
    /\ IdleSha
    /\ IdleSort

\* runHash up to the call of ContentHash: the file is decoded with
\* UseNumber and obj := mapToMemoryObject(input)
LoadFile ==
    /\ pc \in {"start", "hashed"}
    /\ \E input \in CliInputs :
          /\ hin' = Append(hin, input)
          /\ obj' = mapToMemoryObject(input)
    /\ pc' = IF pc = "start" THEN "built" ELSE "edited"
    /\ UNCHANGED <<first, second, cin, cout, tin, tout, vfile, vout, ival, iout, sha, rin, rout>>

NextCli ==
    \/ LoadFile
    \/ Hash
    \/ Rehash

SpecCli == InitCli /\ [][NextCli]_vars

\* how the decoded map m holds the field k
Presence(m, k) == IF k \in DOMAIN m THEN m[k].t ELSE "missing"

\* a and b hold one relationship object each and these differ in how they
\* hold key or type
RelationshipDiffers(a, b) ==
    /\ Presence(a, K_relationships) = "arr" /\ Presence(b, K_relationships) = "arr"
    /\ Len(a[K_relationships].v) = 1 /\ Len(b[K_relationships].v) = 1
    /\ a[K_relationships].v[1].t = "map" /\ b[K_relationships].v[1].t = "map"
    /\ \E k \in {K_key, K_type} :
          Presence(a[K_relationships].v[1].v, k)
              # Presence(b[K_relationships].v[1].v, k)

\* a and b differ, for a hashed field, in the field being missing, being
\* null, or being of some type
PresenceDiffers(a, b) ==
    \/ \E k \in {K_category, K_key, K_source, K_created_at, K_value, K_relationships} :
          Presence(a, k) # Presence(b, k)
    \/ RelationshipDiffers(a, b)

\* C20: two input maps that differ, for category, key, source, created_at,
\* value, relationships or a relationship's key or type, in the field
\* being missing, being null or holding a scalar of another type do not
\* give the same hashed fields, neither from mapToMemoryObject nor from
\* inputToMemoryObject.
C20_PresenceKept ==
    (second.done /\ Len(hin) = 2 /\ PresenceDiffers(hin[1], hin[2])) =>
        /\ ~SameHashed(first.in, second.in)
        /\ ~SameHashed(inputToMemoryObject(hin[1]), inputToMemoryObject(hin[2]))

\* how often each normalized (key, type) pair occurs in the relationships rs
RelBag(rs) ==
    LET pairs == {<<NormalizeString(rs[i].Key), NormalizeString(rs[i].Type)>> :
                     i \in 1..Len(rs)}
    IN  [p \in pairs |->
            Cardinality({i \in 1..Len(rs) :
                <<NormalizeString(rs[i].Key), NormalizeString(rs[i].Type)>> = p})]

\* the hashed fields of o after normalization: strings in NFC, the
\* relationships without their order
NormalHashed(o) ==
    [Category |-> NormalizeString(o.Category), CreatedAt |-> o.CreatedAt,
     Key |-> NormalizeString(o.Key), Source |-> NormalizeString(o.Source),
     Value |-> IF o.Value.t = "str" THEN Str(NormalizeString(o.Value.v))
               ELSE o.Value,
     Relationships |-> RelBag(o.Relationships)]

\* C21: two objects on which ContentHash succeeds and whose hashed fields
\* differ after normalization (strings in NFC, relationships sorted) give
\* different canonical byte sequences to SHA-256.
C21_Sensitivity ==
    (/\ second.done /\ first.out.err = "" /\ second.out.err = ""
     /\ NormalHashed(first.in) # NormalHashed(second.in)) =>
        first.out.canonical # second.out.canonical

(***************************************************************************)
(* SpecRound: CanonicalizeObject applied to maps that hold numbers of      *)
(* every kind the serializer takes.                                        *)
(***************************************************************************)
\* the float64 values 3.14, 0.001, 1e21, 42, -0.5, 0, -0, NaN, +Inf, -Inf
Floats ==
    { Float("finite", FALSE, <<51, 49, 52>>, 1), Float("finite", FALSE, <<49>>, -2),
      Float("finite", FALSE, <<49>>, 22), Float("finite", FALSE, <<52, 50>>, 2),
      Float("finite", TRUE, <<53>>, 0), Float("finite", FALSE, <<>>, 0),
      Float("finite", TRUE, <<>>, 0),
      Float("nan", FALSE, <<>>, 0), Float("inf", FALSE, <<>>, 0),
      Float("inf", TRUE, <<>>, 0) }

\* true, the literals 42, 3.14 and -1e3, the int -7, and the strings c ",
\* U+001F before U+00E9, and \
RoundScalars ==
    { Bool(TRUE), Num(<<52, 50>>), Num(<<51, 46, 49, 52>>), Num(<<45, 49, 101, 51>>),
      Int_(-7), Str(<<99, 32, 34>>), Str(<<31, 195, 169>>), Str(<<92>>) }

RoundLeaves == RoundScalars \cup Floats \cup {Null}

\* what is put inside containers: a literal, a string, 3.14 and NaN
RoundNested ==
    { Num(<<51, 46, 49, 52>>), Str(<<31, 195, 169>>),
      Float("finite", FALSE, <<51, 49, 52>>, 1), Float("nan", FALSE, <<>>, 0) }

RoundInputs ==
    {k :> x : k \in TopKeys,
              x \in RoundLeaves
                    \cup {Arr(q) : q \in SeqsUpTo(RoundNested, MaxArr)}
                    \cup {Map(f) : f \in MapsOver(InnerKeys, RoundNested)}}
    \cup {(<<98>> :> x) @@ (<<97>> :> y) : x \in RoundScalars, y \in RoundScalars}

InitRound ==
    /\ cin \in RoundInputs
    /\ cout = NoRes
    /\ IdleHash
    /\ IdleTime
    /\ IdleVerify
    /\ IdleIngest
    /\ IdleSha
    /\ IdleSort

SpecRound == InitRound /\ [][NextCanon]_vars

RECURSIVE Decoded(_)
\* the value a decoder with UseNumber builds from what was read: an object
\* becomes a map (of a key written twice the last value stays), a number
\* stays as its text
Decoded(tree) ==
    CASE tree.t = "obj" ->
            Map([k \in {tree.v.keys[j] : j \in 1..Len(tree.v.keys)} |->
                    Decoded(tree.v.vals[CHOOSE j \in 1..Len(tree.v.keys) :
                                /\ tree.v.keys[j] = k
                                /\ \A h \in (j + 1)..Len(tree.v.keys) :
                                      tree.v.keys[h] # k])])
      [] tree.t = "arr" -> Arr([j \in 1..Len(tree.v) |-> Decoded(tree.v[j])])
      [] OTHER -> tree

\* C22: for every value that CanonicalizeObject accepts, the emitted bytes
\* parse as JSON, and canonicalizing the parsed value (numbers kept as
\* their text) yields exactly the same bytes.
C22_RoundTrip ==
    (cout.done /\ cout.err = "") =>
        \E r \in {ReadJSON(cout.bytes)} :
            /\ r.ok
            /\ r.v.t = "obj"
            /\ \A seed \in Seeds :
                  canonicalizeValue(Decoded(r.v), seed) = Ok(cout.bytes)

(***************************************************************************)
(* sha256.Sum256 computed in full (FIPS 180-4), and SpecDigest, in which   *)
(* ContentHash is run on the reference object of the tests with the real   *)
(* digest.  A 32-bit word is the pair <<high 16 bits, low 16 bits>>.       *)
(***************************************************************************)
RECURSIVE XorBits(_, _, _)
\* the exclusive or of the low n bits of a and b
XorBits(a, b, n) ==
    IF n = 0 THEN 0
    ELSE ((a + b) % 2) + 2 * XorBits(a \div 2, b \div 2, n - 1)

RECURSIVE AndBits(_, _, _)
AndBits(a, b, n) ==
    IF n = 0 THEN 0
    ELSE ((a % 2) * (b % 2)) + 2 * AndBits(a \div 2, b \div 2, n - 1)

RECURSIVE Pow2(_)
Pow2(n) == IF n = 0 THEN 1 ELSE 2 * Pow2(n - 1)

Xor(x, y) == <<XorBits(x[1], y[1], 16), XorBits(x[2], y[2], 16)>>
And(x, y) == <<AndBits(x[1], y[1], 16), AndBits(x[2], y[2], 16)>>
Not(x) == <<65535 - x[1], 65535 - x[2]>>

\* x + y modulo 2^32
Add(x, y) ==
    <<(x[1] + y[1] + ((x[2] + y[2]) \div 65536)) % 65536, (x[2] + y[2]) % 65536>>

\* x >> n for 0 < n < 16
Shr(x, n) ==
    <<x[1] \div Pow2(n), (x[2] \div Pow2(n)) + (x[1] % Pow2(n)) * Pow2(16 - n)>>

\* bits.RotateLeft32(x, -n) for 0 < n < 32, n # 16
Rotr(x, n) ==
    IF n < 16
    THEN <<(x[1] \div Pow2(n)) + (x[2] % Pow2(n)) * Pow2(16 - n),
           (x[2] \div Pow2(n)) + (x[1] % Pow2(n)) * Pow2(16 - n)>>
    ELSE <<(x[2] \div Pow2(n - 16)) + (x[1] % Pow2(n - 16)) * Pow2(32 - n),
           (x[1] \div Pow2(n - 16)) + (x[2] % Pow2(n - 16)) * Pow2(32 - n)>>

Xor3(x, y, z) == Xor(Xor(x, y), z)

\* the round constants and the initial hash value
ShaK ==
    <<<<17034, 12184>>, <<28983, 17553>>, <<46528, 64463>>, <<59829, 56229>>,
      <<14678, 49755>>, <<23025, 4593>>, <<37439, 33444>>, <<43804, 24277>>,
      <<55303, 43672>>, <<4739, 23297>>, <<9265, 34238>>, <<21772, 32195>>,
      <<29374, 23924>>, <<32990, 45566>>, <<39900, 1703>>, <<49563, 61812>>,
      <<58523, 27073>>, <<61374, 18310>>, <<4033, 40390>>, <<9228, 41420>>,
      <<11753, 11375>>, <<19060, 33962>>, <<23728, 43484>>, <<30457, 35034>>,
      <<38974, 20818>>, <<43057, 50797>>, <<45059, 10184>>, <<48985, 32711>>,
      <<50912, 3059>>, <<54695, 37191>>, <<1738, 25425>>, <<5161, 10599>>,
      <<10167, 2693>>, <<11803, 8504>>, <<19756, 28156>>, <<21304, 3347>>,
      <<25866, 29524>>, <<30314, 2747>>, <<33218, 51502>>, <<37490, 11397>>,
      <<41663, 59553>>, <<43034, 26187>>, <<49739, 35696>>, <<51052, 20899>>,
      <<53650, 59417>>, <<54937, 1572>>, <<62478, 13701>>, <<4202, 41072>>,
      <<6564, 49430>>, <<7735, 27656>>, <<10056, 30540>>, <<13488, 48309>>,
      <<14620, 3251>>, <<20184, 43594>>, <<23452, 51791>>, <<26670, 28659>>,
      <<29839, 33518>>, <<30885, 25455>>, <<33992, 30740>>, <<36039, 520>>,
      <<37054, 65530>>, <<42064, 27883>>, <<48889, 41975>>, <<50801, 30962>>>>

ShaInit ==
    <<<<27145, 58983>>, <<47975, 44677>>, <<15470, 62322>>, <<42319, 62778>>,
      <<20750, 21119>>, <<39685, 26764>>, <<8067, 55723>>, <<23520, 52505>>>>

\* the message with the bit 1, zero bytes up to 56 modulo 64, and its length
\* in bits as 8 bytes
Padded(data) ==
    LET zeros == (119 - (Len(data) % 64)) % 64
        bits == Len(data) * 8
    IN  data \o <<128>> \o [i \in 1..zeros |-> 0]
        \o <<0, 0, 0, 0, 0, (bits \div 65536) % 256, (bits \div 256) % 256,
             bits % 256>>

\* the 16 words of block blk of msg
BlockWords(msg, blk) ==
    [j \in 1..16 |->
        <<msg[64 * (blk - 1) + 4 * j - 3] * 256 + msg[64 * (blk - 1) + 4 * j - 2],
          msg[64 * (blk - 1) + 4 * j - 1] * 256 + msg[64 * (blk - 1) + 4 * j]>>]

\* the next word of the message schedule w
NextW(w) ==
    LET v1 == w[Len(w) - 1]
        v2 == w[Len(w) - 14]
    IN  Add(Add(Xor3(Rotr(v1, 17), Rotr(v1, 19), Shr(v1, 10)), w[Len(w) - 6]),
            Add(Xor3(Rotr(v2, 7), Rotr(v2, 18), Shr(v2, 3)), w[Len(w) - 15]))

\* the working variables a..h after round number round (from 0) of a block
OneRound(reg, w, round) ==
    LET t1 == Add(Add(reg[8],
                      Xor3(Rotr(reg[5], 6), Rotr(reg[5], 11), Rotr(reg[5], 25))),
                  Add(Xor(And(reg[5], reg[6]), And(Not(reg[5]), reg[7])),
                      Add(ShaK[round + 1], w[round + 1])))
        t2 == Add(Xor3(Rotr(reg[1], 2), Rotr(reg[1], 13), Rotr(reg[1], 22)),
                  Xor3(And(reg[1], reg[2]), And(reg[1], reg[3]), And(reg[2], reg[3])))
    IN  <<Add(t1, t2), reg[1], reg[2], reg[3], Add(reg[4], t1), reg[5], reg[6],
          reg[7]>>

\* the 32 bytes of the hash value h, big-endian
DigestBytes(h) ==
    [i \in 1..32 |->
        LET x == h[((i - 1) \div 4) + 1]
        IN  CASE i % 4 = 1 -> x[1] \div 256
              [] i % 4 = 2 -> x[1] % 256
              [] i % 4 = 3 -> x[2] \div 256
              [] OTHER -> x[2] % 256]

\* the object of TestVectorHashMatchesFrozenValue
S_project == <<112, 114, 111, 106, 101, 99, 116>>
S_basic_key == <<116, 101, 115, 116, 47, 98, 97, 115, 105, 99, 95, 109, 101, 109, 111, 114, 121>>
S_rel_key == <<112, 114, 111, 106, 101, 99, 116, 47, 104, 101, 108, 105, 111, 115>>
S_related_to == <<114, 101, 108, 97, 116, 101, 100, 95, 116, 111>>
S_user == <<117, 115, 101, 114>>
S_basic_value ==
    <<84, 104, 105, 115, 32, 105, 115, 32, 97, 32, 116, 101, 115, 116, 32, 109,
      101, 109, 111, 114, 121, 32, 102, 111, 114, 32, 104, 97, 115, 104, 32, 118,
      101, 114, 105, 102, 105, 99, 97, 116, 105, 111, 110, 46>>

basicObject ==
    MemoryObject(S_project, T_ok, S_basic_key, <<Rel(S_rel_key, S_related_to)>>,
                 S_user, Str(S_basic_value), Meta(<<>>, 0, 0, <<>>, 0))

\* the reference object, and the same with a created_at that has an offset
InitDigest ==
    /\ pc = "built"
    /\ obj \in {basicObject, [basicObject EXCEPT !.CreatedAt = T_offset]}
    /\ first = NoCall
    /\ second = NoCall
    /\ sha = NoSha
    /\ IdleCanon
    /\ IdleTime
    /\ IdleVerify
    /\ IdleIngest
    /\ IdleSort

\* ContentHash up to sum := sha256.Sum256(canonical): an error is returned
\* at once, else the digest is begun on the canonical bytes
HashBegin ==
    /\ pc = "built"
    /\ \E seed \in Seeds : \E got \in {ContentHash(obj, seed)} :
          IF got.err # ""
          THEN /\ first' = Call(obj, got)
               /\ pc' = "hashed"
               /\ sha' = sha
          ELSE \E msg \in {Padded(got.canonical)} :
               /\ sha' = ShaState(msg, 1, BlockWords(msg, 1), 0, ShaInit, ShaInit, got)
               /\ pc' = "sum256"
               /\ first' = first
    /\ UNCHANGED <<obj, second, cin, cout, tin, tout, vfile, vout, hin, ival, iout, rin, rout>>

\* one more word of the message schedule of the block
Schedule ==
    /\ pc = "sum256"
    /\ Len(sha.w) < 64
    /\ sha' = [sha EXCEPT !.w = Append(sha.w, NextW(sha.w))]
    /\ UNCHANGED <<pc, obj, first, second, cin, cout, tin, tout, vfile, vout, hin,
                   ival, iout, rin, rout>>

\* one round of the block
Round ==
    /\ pc = "sum256"
    /\ Len(sha.w) = 64
    /\ sha.round < 64
    /\ sha' = [sha EXCEPT !.reg = OneRound(sha.reg, sha.w, sha.round),
                          !.round = sha.round + 1]
    /\ UNCHANGED <<pc, obj, first, second, cin, cout, tin, tout, vfile, vout, hin,
                   ival, iout, rin, rout>>

\* the block is added to the hash value, and the next block is taken up
NextBlock ==
    /\ pc = "sum256"
    /\ sha.round = 64
    /\ 64 * sha.blk < Len(sha.msg)
    /\ \E h \in {[j \in 1..8 |-> Add(sha.h[j], sha.reg[j])]} :
          sha' = ShaState(sha.msg, sha.blk + 1, BlockWords(sha.msg, sha.blk + 1), 0,
                          h, h, sha.out)
    /\ UNCHANGED <<pc, obj, first, second, cin, cout, tin, tout, vfile, vout, hin,
                   ival, iout, rin, rout>>

\* after the last block: return hex.EncodeToString(sum[:]), nil
HashEnd ==
    /\ pc = "sum256"
    /\ sha.round = 64
    /\ 64 * sha.blk = Len(sha.msg)
    /\ \E hex \in {EncodeToString(DigestBytes([j \in 1..8 |->
                                      Add(sha.h[j], sha.reg[j])]))} :
          first' = Call(obj, [sha.out EXCEPT !.hash =
                                 [len |-> Len(hex), of |-> sha.out.canonical,
                                  hex |-> hex]])
    /\ pc' = "hashed"
    /\ sha' = NoSha
    /\ UNCHANGED <<obj, second, cin, cout, tin, tout, vfile, vout, hin, ival, iout, rin, rout>>

NextDigest ==
    \/ HashBegin
    \/ Schedule
    \/ Round
    \/ NextBlock
    \/ HashEnd

SpecDigest == InitDigest /\ [][NextDigest]_vars

\* the digest the specification freezes for the reference object
FrozenBasic ==
    <<99, 97, 101, 54, 102, 48, 99, 97, 53, 50, 49, 99, 97, 101, 98, 49,
      102, 55, 52, 52, 55, 48, 97, 101, 99, 97, 53, 97, 55, 53, 102, 102,
      49, 102, 101, 48, 57, 56, 56, 48, 57, 97, 48, 51, 52, 101, 56, 97,
      49, 53, 101, 48, 101, 98, 52, 55, 54, 50, 98, 52, 102, 52, 56, 53>>

\* C23: ContentHash of the reference object `basic` is exactly
\* cae6f0ca521caeb1f74470aeca5a75ff1fe098809a034e8a15e0eb4762b4f485.
C23_FrozenDigest ==
    (first.done /\ first.in = basicObject) =>
        /\ first.out.err = ""
        /\ first.out.hash.hex = FrozenBasic

\* the bytes "relationships":[] and "relationships":null
B_relationships_empty ==
    <<34, 114, 101, 108, 97, 116, 105, 111, 110, 115, 104, 105, 112, 115, 34, 58, 91, 93>>
B_relationships_null ==
    <<34, 114, 101, 108, 97, 116, 105, 111, 110, 115, 104, 105, 112, 115, 34, 58,
      110, 117, 108, 108>>

\* C24: for an object with no relationships (an empty list or a nil one),
\* whose created_at is accepted and whose value holds no null, ContentHash
\* succeeds and the canonical bytes contain "relationships":[]; the field
\* is not written as null and not left out.
C24_EmptyRelationships ==
    \A c \in {first, second} :
        (/\ c.done /\ c.in.Relationships = <<>>
         /\ NormalizeTimestamp(c.in.CreatedAt).err = ""
         /\ ~HasNull(c.in.Value)) =>
            /\ c.out.err = ""
            /\ c.out.hash.len = 64
            /\ K_relationships \in DOMAIN c.out.fields
            /\ Contains(c.out.canonical, B_relationships_empty)
            /\ ~Contains(c.out.canonical, B_relationships_null)

\* an object was hashed with one relationship and, after its relationships
\* were taken away, again
C24_Witness ==
    /\ second.done
    /\ first.in.Relationships # <<>> /\ first.out.err = ""
    /\ second.in.Relationships = <<>> /\ second.out.err = ""
    /\ Contains(second.out.canonical, B_relationships_empty)

\* s holds no decomposed pair: it is in NFC
IsNFC(s) == ~Contains(s, <<101, 204, 129>>)

RECURSIVE HoldsDecomposed(_)
\* val holds, at some depth, a string or a map key that is not in NFC
HoldsDecomposed(val) ==
    CASE val.t = "str" -> ~IsNFC(val.v)
      [] val.t = "map" ->
            \E k \in DOMAIN val.v : ~IsNFC(k) \/ HoldsDecomposed(val.v[k])
      [] val.t = "arr" -> \E j \in 1..Len(val.v) : HoldsDecomposed(val.v[j])
      [] OTHER -> FALSE

\* C25: ContentHash applies NFC to value if and only if value is a string:
\* a string value is serialized in NFC, a map or an array reaches the
\* serializer unchanged, so that a decomposed string or map key inside it
\* is emitted as it is.
C25_ValueNFC ==
    \A c \in {first, second} :
        (c.done /\ c.out.err = "") =>
            IF c.in.Value.t = "str"
            THEN /\ c.out.fields[K_value].t = "str"
                 /\ IsNFC(c.out.fields[K_value].v)
                 /\ CanonEquiv(c.out.fields[K_value].v, c.in.Value.v)
            ELSE /\ c.out.fields[K_value] = c.in.Value
                 /\ HoldsDecomposed(c.in.Value) =>
                        Contains(c.out.canonical, <<34, 101, 204, 129, 34>>)

\* a map value with a decomposed key and a decomposed string in it was
\* hashed
C25_Witness ==
    /\ first.done /\ first.out.err = ""
    /\ first.in.Value.t = "map"
    /\ \E k \in DOMAIN first.in.Value.v :
          ~IsNFC(k) /\ first.in.Value.v[k].t = "str" /\ ~IsNFC(first.in.Value.v[k].v)
    /\ first.in.Category = S_nfd
    /\ first.out.fields[K_category] = [t |-> "str", v |-> S_nfc]

\* ---------------------------------------------------------------------------
\* SortRelationships called on its own, on a slice of relationship maps
\* ---------------------------------------------------------------------------

MaxSort == 3

\* entries that agree on (key, type) are told apart by a further field
Named(key, typ, name) == RelationshipToMap(key, typ) @@ (K_name :> Str(name))

SortEntries == {Named(k, t, n) : k \in {S_f, S_nfc}, t \in {S_f, S_t}, n \in {<<49>>, <<50>>}}

SortInputs == UNION {[1..n -> SortEntries] : n \in 0..MaxSort}

InitSort ==
    /\ rin \in SortInputs
    /\ rout = NoSorted
    /\ IdleHash
    /\ IdleCanon
    /\ IdleTime
    /\ IdleVerify
    /\ IdleIngest
    /\ IdleSha

\* sorted := SortRelationships(rels): the copy is sorted, rels is not written
Sort ==
    /\ ~rout.done
    /\ rout' = Sorted(rin, SortRelationships(rin))
    /\ UNCHANGED <<pc, obj, first, second, cin, cout, tin, tout, vfile, vout, hin,
                   ival, iout, sha, rin>>

NextSort == Sort

SpecSort == InitSort /\ [][NextSort]_vars

\* byte-wise order of two strings, and of two entries by key and then type
RECURSIVE BytesBefore(_, _)
BytesBefore(a, b) ==
    IF b = <<>> THEN FALSE
    ELSE IF a = <<>> THEN TRUE
    ELSE IF Head(a) # Head(b) THEN Head(a) < Head(b)
    ELSE BytesBefore(Tail(a), Tail(b))

EntryAtMost(a, b) ==
    \/ BytesBefore(a[K_key].v, b[K_key].v)
    \/ /\ a[K_key].v = b[K_key].v
       /\ ~BytesBefore(b[K_type].v, a[K_type].v)

SameKeyType(a, b) == a[K_key] = b[K_key] /\ a[K_type] = b[K_type]

\* the entries of q that agree with e on (key, type), in the order of q
RECURSIVE Alike(_, _)
Alike(q, e) ==
    IF q = <<>> THEN <<>>
    ELSE (IF SameKeyType(Head(q), e) THEN <<Head(q)>> ELSE <<>>) \o Alike(Tail(q), e)

\* C26: SortRelationships returns a permutation of its input, ordered by key
\* ascending byte-wise and by type ascending among equal keys; entries with
\* the same (key, type) keep their input order; the input slice is as it was
C26_SortRelationships ==
    rout.done =>
        /\ Len(rout.sorted) = Len(rout.before)
        /\ \A e \in SortEntries : Count(rout.sorted, e) = Count(rout.before, e)
        /\ \A i \in 1..(Len(rout.sorted) - 1) :
               EntryAtMost(rout.sorted[i], rout.sorted[i + 1])
        /\ \A e \in SortEntries : Alike(rout.sorted, e) = Alike(rout.before, e)
        /\ rin = rout.before

\* a slice out of order, with two entries alike in (key, type) apart, sorted
C26_Witness ==
    /\ rout.done
    /\ Len(rin) = 3
    /\ SameKeyType(rin[1], rin[3])
    /\ rin[1] # rin[3]
    /\ BytesBefore(rin[2][K_key].v, rin[1][K_key].v)
    /\ rout.sorted # rin

\* C27: ValidateIngestValue is a function of its input alone: whatever order
\* a map is ranged over in, every call on the value returns the same outcome
\* with the same error identifier
C27_IngestDeterministic ==
    iout.done => \A seed \in Seeds : ValidateIngestValue(ival, seed) = iout.err

\* the 0-based indices of the bytes '.' of s
DotsOf(s) == {i \in 0..(Len(s) - 1) : s[i + 1] = 46}

\* C28: NormalizeTimestamp never slices out of range: when the string ends
\* in 'Z' and holds a '.', the index after the last '.' is at most the index
\* of the final 'Z'; the call returns a value or an error, never a panic
C28_SliceInRange ==
    tout.done =>
        /\ tout.err # "panic: slice bounds out of range"
        /\ (tout.err = "") # (tout.bytes = <<>>)
        /\ (tin # <<>> /\ tin[Len(tin)] = 90 /\ DotsOf(tin) # {}) =>
               \A i \in DotsOf(tin) : i + 1 <= Len(tin) - 1

\* the string ".Z" or "..Z", whose slice is empty, was refused for its
\* precision
C28_Witness ==
    /\ tout.done
    /\ tin \in {<<46, 90>>, <<46, 46, 90>>}
    /\ tout.err = "CANON_ERR_TIMESTAMP_INVALID_PRECISION"

====
